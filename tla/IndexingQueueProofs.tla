------------------------- MODULE IndexingQueueProofs -------------------------
(***************************************************************************)
(* Theorems about IndexingQueue, for every number of processes, workers,   *)
(* jobs, repositories, attempts and crashes.                               *)
(***************************************************************************)
EXTENDS IndexingQueue, TLAPS

-----------------------------------------------------------------------------
(* The operators the actions are built from keep the shape of the state.   *)

LEMMA NoneIsNoJob == None \notin Jobs /\ None \notin Repos /\ None \notin Workers
  BY QueueAssumption DEF QueueAssumption

LEMMA RepoOfType == \A j \in Jobs : RepoOf[j] \in Repos
  BY QueueAssumption DEF QueueAssumption

LEMMA Constant == /\ MaxAttempts \in Nat \ {0} /\ ScanLimit \in Nat \ {0}
                  /\ MaxEnqueues \in Nat /\ MaxCrashes \in Nat
                  /\ Deletable \subseteq Repos
  BY QueueAssumption DEF QueueAssumption

LEMMA AtType ==
  /\ Off \in FreeWorker /\ Claiming \in FreeWorker /\ Done \in FreeWorker
  /\ Off \in WorkerState /\ Claiming \in WorkerState /\ Done \in WorkerState
  BY DEF At, Off, Claiming, Done, WorkerState, FreeWorker, FreeSteps

LEMMA RowType == NoRow \in Row /\ NewRow \in Row
  BY DEF NoRow, NewRow, Row, JobStatus

\* drain() only turns free slots into claiming workers.
LEMMA DrainType ==
  ASSUME NEW p \in Procs, NEW ws \in [Workers -> WorkerState], TypeOK, Drain(p, ws)
  PROVE  /\ worker' \in [Procs -> [Workers -> WorkerState]]
         /\ drainRequested' \in [Procs -> BOOLEAN]
<1> DEFINE filled == [w \in Workers |-> IF ws[w].pc = "off" THEN Claiming ELSE ws[w]]
<1>1. filled \in [Workers -> WorkerState]
  BY AtType
<1>2. /\ worker' = [worker EXCEPT ![p] = ws] \/ worker' = [worker EXCEPT ![p] = filled]
      /\ \E b \in BOOLEAN : drainRequested' = [drainRequested EXCEPT ![p] = b]
  BY DEF Drain
<1> HIDE DEF filled
<1>3. QED
  BY <1>1, <1>2 DEF TypeOK

LEMMA InsertType ==
  ASSUME NEW j \in Jobs, TypeOK, InsertJob(j)
  PROVE  /\ jobs' \in [Jobs -> Row]
         /\ before' \subseteq Jobs \X Jobs
         /\ progress' \in [Jobs -> JobStatus]
<1>1. jobs \in [Jobs -> Row] /\ before \subseteq Jobs \X Jobs /\ progress \in [Jobs -> JobStatus]
  BY DEF TypeOK
<1>2. /\ jobs' = jobs \/ jobs' = [jobs EXCEPT ![j] = NewRow]
      /\ before' = before \/ before' = before \cup {<<k, j>> : k \in Stored}
      /\ progress' = progress \/ progress' = [progress EXCEPT ![j] = "pending"]
  BY DEF InsertJob
<1>3. jobs' \in [Jobs -> Row]
  BY <1>1, <1>2, RowType
<1>4. before' \subseteq Jobs \X Jobs
  BY <1>1, <1>2 DEF Stored
<1>5. progress' \in [Jobs -> JobStatus]
  BY <1>1, <1>2 DEF JobStatus
<1>6. QED
  BY <1>3, <1>4, <1>5

LEMMA DeleteType ==
  ASSUME NEW S, TypeOK, DeleteJobs(S)
  PROVE  jobs' \in [Jobs -> Row] /\ before' \subseteq Jobs \X Jobs
  BY RowType DEF DeleteJobs, TypeOK

LEMMA SettledType ==
  ASSUME NEW j \in Jobs, NEW s \in JobStatus, TypeOK
  PROVE  Settled(j, s) \in [Jobs -> Row]
<1>1. jobs \in [Jobs -> Row]
  BY DEF TypeOK
<1>2. \A row \in Row : [row EXCEPT !.status = s, !.claim = None, !.old = FALSE] \in Row
  BY DEF Row
<1>3. QED
  BY <1>1, <1>2 DEF Settled

LEMMA ProgressType ==
  ASSUME NEW j \in Jobs, NEW s \in JobStatus, TypeOK
  PROVE  ProgressSet(j, s) \in [Jobs -> JobStatus]
  BY DEF ProgressSet, TypeOK

LEMMA WorkerAt ==
  ASSUME NEW p \in Procs, NEW w \in Workers, TypeOK
  PROVE  worker[p][w] \in WorkerState
  BY DEF TypeOK

LEMMA WorkerSet ==
  ASSUME NEW p \in Procs, NEW w \in Workers, NEW r \in WorkerState, TypeOK
  PROVE  [worker EXCEPT ![p][w] = r] \in [Procs -> [Workers -> WorkerState]]
  BY DEF TypeOK

\* A worker past its selection has a job; before it, it has none.
LEMMA BusyHasJob ==
  ASSUME NEW p \in Procs, NEW w \in Workers, TypeOK
  PROVE  /\ worker[p][w].pc \in BusySteps => worker[p][w] \in BusyWorker
         /\ worker[p][w].pc \in BusySteps => JobOf(p, w) \in Jobs
         /\ worker[p][w].pc \in FreeSteps => JobOf(p, w) = None
         /\ worker[p][w].pc \in FreeSteps => worker[p][w] \in FreeWorker
         /\ worker[p][w].pc \in BusySteps \cup FreeSteps
  BY WorkerAt DEF WorkerState, FreeWorker, BusyWorker, FreeSteps, BusySteps, JobOf

LEMMA GotoType ==
  ASSUME NEW p \in Procs, NEW w \in Workers, NEW step \in BusySteps, TypeOK,
         Goto(p, w, step), worker[p][w].pc \in BusySteps
  PROVE  worker' \in [Procs -> [Workers -> WorkerState]]
<1>1. worker \in [Procs -> [Workers -> WorkerState]]
  BY DEF TypeOK
<1>2. worker' = [worker EXCEPT ![p][w].pc = step]
  BY DEF Goto
<1>3. \A r \in BusyWorker : [r EXCEPT !.pc = step] \in WorkerState
  BY DEF BusyWorker, WorkerState
<1>4. worker' = [worker EXCEPT ![p][w] = [worker[p][w] EXCEPT !.pc = step]]
  BY <1>1, <1>2
<1>5. QED
  BY <1>3, <1>4, BusyHasJob, WorkerSet

LEMMA CaughtType ==
  ASSUME NEW p \in Procs, NEW w \in Workers, TypeOK, Caught(p, w),
         worker[p][w].pc \in BusySteps
  PROVE  worker' \in [Procs -> [Workers -> WorkerState]]
  BY GotoType DEF Caught, BusySteps

LEMMA ReleaseType ==
  ASSUME NEW p \in Procs, NEW w \in Workers, TypeOK, Release(p, w)
  PROVE  /\ worker' \in [Procs -> [Workers -> WorkerState]]
         /\ runningRepoKeys' \in [Procs -> SUBSET Repos]
         /\ deletion' \in [Procs -> [pc : DeletionSteps, repo : Repos \cup {None},
                                     busy : BOOLEAN]]
  BY AtType DEF Release, TypeOK, DeletionSteps

-----------------------------------------------------------------------------
(* Type correctness.                                                       *)

LEMMA TypeInit == Init => TypeOK
  BY AtType, RowType, Constant
  DEF Init, TypeOK, JobStatus, NoDeletion, DeletionSteps, HouseSteps

LEMMA TypeEnqueue ==
  ASSUME NEW p \in Procs, NEW j \in Jobs, TypeOK,
         Enqueue(p, j) \/ EnqueueThrows(p, j) \/ EnqueueDrains(p, j)
  PROVE  TypeOK'
<1>1. CASE Enqueue(p, j)
  <2>1. /\ jobs' \in [Jobs -> Row] /\ before' \subseteq Jobs \X Jobs
        /\ progress' \in [Jobs -> JobStatus]
    BY <1>1, InsertType DEF Enqueue
  <2>2. enqueuing' \in [Procs -> SUBSET Jobs] /\ enqueues' \in 0 .. MaxEnqueues
    BY <1>1, Constant DEF Enqueue, TypeOK
  <2>3. QED
    BY <1>1, <2>1, <2>2 DEF Enqueue, TypeOK
<1>2. CASE EnqueueThrows(p, j)
  <2>1. /\ jobs' \in [Jobs -> Row] /\ before' \subseteq Jobs \X Jobs
        /\ progress' \in [Jobs -> JobStatus]
    BY <1>2, InsertType DEF EnqueueThrows
  <2>2. enqueues' \in 0 .. MaxEnqueues
    BY <1>2, Constant DEF EnqueueThrows, TypeOK
  <2>3. QED
    BY <1>2, <2>1, <2>2 DEF EnqueueThrows, TypeOK, memory
<1>3. CASE EnqueueDrains(p, j)
  <2>1. worker[p] \in [Workers -> WorkerState]
    BY DEF TypeOK
  <2>2. QED
    BY <1>3, <2>1, DrainType DEF EnqueueDrains, TypeOK, tables
<1>4. QED
  BY <1>1, <1>2, <1>3

LEMMA TypeClaim ==
  ASSUME NEW p \in Procs, NEW w \in Workers, TypeOK, ClaimNext(p, w)
  PROVE  TypeOK'
<1> USE DEF TypeOK
<1> DEFINE WorkerOK == worker' \in [Procs -> [Workers -> WorkerState]]
<1>1. CASE SelectJob(p, w)
  <2>1. PICK j \in Jobs :
          worker' = [worker EXCEPT ![p][w] =
                       [pc |-> "mark", job |-> j, seen |-> jobs[j].attempts, offset |-> 0]]
    BY <1>1 DEF SelectJob, Unlocked, Page, Pending
  <2>2. [pc |-> "mark", job |-> j, seen |-> jobs[j].attempts, offset |-> 0] \in WorkerState
    BY DEF WorkerState, BusyWorker, BusySteps, Row
  <2>3. WorkerOK
    BY <2>1, <2>2, WorkerSet
  <2>4. QED
    BY <1>1, <2>3 DEF SelectJob, ClaimStep, tables
<1>2. CASE SelectNextPage(p, w)
  <2>1. worker[p][w] \in FreeWorker
    BY <1>2, BusyHasJob DEF SelectNextPage, ClaimStep, FreeSteps
  <2>2. \A r \in FreeWorker : [r EXCEPT !.offset = @ + ScanLimit] \in WorkerState
    <3> SUFFICES ASSUME NEW r \in FreeWorker
                 PROVE  [r EXCEPT !.offset = r.offset + ScanLimit] \in FreeWorker
      BY DEF WorkerState
    <3>1. r.offset + ScanLimit \in Nat
      BY Constant DEF FreeWorker
    <3>2. QED
      BY <3>1 DEF FreeWorker
  <2>3. worker' = [worker EXCEPT ![p][w] = [worker[p][w] EXCEPT !.offset = @ + ScanLimit]]
    <3>1. worker' = [worker EXCEPT ![p][w].offset = @ + ScanLimit]
      BY <1>2 DEF SelectNextPage
    <3>2. QED
      BY <3>1
  <2>4. WorkerOK
    BY <2>1, <2>2, <2>3, WorkerSet
  <2>5. QED
    BY <1>2, <2>4 DEF SelectNextPage, ClaimStep, tables
<1>3. CASE SelectNone(p, w)
  <2>1. WorkerOK
    BY <1>3, AtType, WorkerSet DEF SelectNone
  <2>2. QED
    BY <1>3, <2>1 DEF SelectNone, ClaimStep, tables
<1>4. ASSUME NEW j \in Jobs, TakeRow(p, w, j)
      PROVE  jobs' \in [Jobs -> Row]
  BY <1>4 DEF TakeRow, Row, JobStatus
<1>5. CASE MarkRunning(p, w)
  <2>1. JobOf(p, w) \in Jobs
    BY <1>5, BusyHasJob DEF MarkRunning, MarkStep, BusySteps
  <2>2. WorkerOK
    BY <1>5, GotoType DEF MarkRunning, MarkStep, BusySteps
  <2>3. jobs' \in [Jobs -> Row]
    BY <1>5, <2>1, <1>4 DEF MarkRunning
  <2>4. QED
    BY <1>5, <2>2, <2>3 DEF MarkRunning, MarkStep
<1>6. CASE MarkRunningAgain(p, w)
  <2>1. JobOf(p, w) \in Jobs
    BY <1>6, BusyHasJob DEF MarkRunningAgain, MarkStep, BusySteps
  <2>2. jobs' \in [Jobs -> Row]
    BY <1>6, <2>1, <1>4 DEF MarkRunningAgain
  <2>3. QED
    BY <1>6, <2>2 DEF MarkRunningAgain, MarkStep
<1>7. CASE MarkRefused(p, w)
  <2>1. WorkerOK
    BY <1>7, AtType, WorkerSet DEF MarkRefused
  <2>2. QED
    BY <1>7, <2>1 DEF MarkRefused, MarkStep
<1>8. CASE Adopt(p, w)
  <2>1. JobOf(p, w) \in Jobs
    BY <1>8, BusyHasJob DEF Adopt, BusySteps
  <2>2. WorkerOK
    BY <1>8, GotoType DEF Adopt, BusySteps
  <2>3. runningRepoKeys' \in [Procs -> SUBSET Repos]
    BY <1>8, <2>1, RepoOfType DEF Adopt
  <2>4. QED
    BY <1>8, <2>2, <2>3 DEF Adopt, tables
<1>9. QED
  BY <1>1, <1>2, <1>3, <1>5, <1>6, <1>7, <1>8 DEF ClaimNext

LEMMA TypeProcess ==
  ASSUME NEW p \in Procs, NEW w \in Workers, TypeOK, Process(p, w)
  PROVE  TypeOK'
<1> USE DEF TypeOK
<1> DEFINE J == JobOf(p, w)
<1>1. worker[p][w].pc \in BusySteps => J \in Jobs
  BY BusyHasJob
<1>2. \A s \in JobStatus : J \in Jobs => Settled(J, s) \in [Jobs -> Row]
  BY SettledType
<1>3. \A s \in JobStatus : J \in Jobs => ProgressSet(J, s) \in [Jobs -> JobStatus]
  BY ProgressType
<1>4. {"pending", "running", "completed", "failed"} \subseteq JobStatus
  BY DEF JobStatus
<1>5. {"start", "run", "report", "requeue", "requeued", "fail", "failed"} \subseteq BusySteps
  BY DEF BusySteps
<1> HIDE DEF J
<1>6. CASE StartJob(p, w)
  BY <1>1, <1>3, <1>4, <1>5, <1>6, GotoType DEF StartJob, InTry, WorkStep, J
<1>7. CASE StartJobThrows(p, w)
  BY <1>5, <1>7, CaughtType DEF StartJobThrows, InTry, WorkStep
<1>8. CASE JobThrows(p, w)
  BY <1>5, <1>8, CaughtType DEF JobThrows, InTry, WorkStep
<1>9. CASE MarkCompleted(p, w)
  BY <1>1, <1>2, <1>4, <1>5, <1>9, GotoType DEF MarkCompleted, InTry, WorkStep, J
<1>10. CASE MarkCompletedThrows(p, w)
  BY <1>1, <1>2, <1>4, <1>5, <1>10, CaughtType DEF MarkCompletedThrows, InTry, WorkStep, J
<1>11. CASE ReportCompleted(p, w)
  BY <1>1, <1>3, <1>4, <1>5, <1>11, ReleaseType DEF ReportCompleted, WorkStep, J
<1>12. CASE ReportCompletedThrows(p, w)
  BY <1>5, <1>12, CaughtType DEF ReportCompletedThrows, InTry, WorkStep
<1>13. CASE MarkPendingForRetry(p, w)
  BY <1>1, <1>2, <1>4, <1>5, <1>13, GotoType DEF MarkPendingForRetry, InTry, WorkStep, J
<1>14. CASE ReportRetry(p, w)
  BY <1>1, <1>3, <1>4, <1>5, <1>14, ReleaseType DEF ReportRetry, WorkStep, J
<1>15. CASE MarkFailed(p, w)
  BY <1>1, <1>2, <1>4, <1>5, <1>15, GotoType DEF MarkFailed, InTry, WorkStep, J
<1>16. CASE ReportFailed(p, w)
  BY <1>1, <1>3, <1>4, <1>5, <1>16, ReleaseType DEF ReportFailed, WorkStep, J
<1>17. CASE WorkerEnds(p, w)
  <2>1. [worker[p] EXCEPT ![w] = Off] \in [Workers -> WorkerState]
    BY AtType
  <2>2. /\ worker' \in [Procs -> [Workers -> WorkerState]]
        /\ drainRequested' \in [Procs -> BOOLEAN]
    BY <1>17, <2>1, DrainType DEF WorkerEnds
  <2>3. QED
    BY <1>17, <2>2 DEF WorkerEnds, tables
<1>18. QED
  BY <1>6, <1>7, <1>8, <1>9, <1>10, <1>11, <1>12, <1>13, <1>14, <1>15, <1>16, <1>17
     DEF Process

LEMMA DeletionGotoType ==
  ASSUME NEW p \in Procs, NEW step \in DeletionSteps, TypeOK, DeletionGoto(p, step)
  PROVE  deletion' \in [Procs -> [pc : DeletionSteps, repo : Repos \cup {None},
                                  busy : BOOLEAN]]
<1> DEFINE Deletion == [pc : DeletionSteps, repo : Repos \cup {None}, busy : BOOLEAN]
<1>1. deletion \in [Procs -> Deletion]
  BY DEF TypeOK
<1>2. [deletion[p] EXCEPT !.pc = step] \in Deletion
  BY <1>1
<1>3. deletion' = [deletion EXCEPT ![p] = [deletion[p] EXCEPT !.pc = step]]
  BY DEF DeletionGoto
<1> HIDE DEF Deletion
<1>4. deletion' \in [Procs -> Deletion]
  BY <1>1, <1>2, <1>3
<1>5. QED
  BY <1>4 DEF Deletion

LEMMA TypeDelete ==
  ASSUME NEW p \in Procs, TypeOK,
         DeleteNext(p) \/ \E r \in Repos : DeleteRequested(p, r)
  PROVE  TypeOK'
<1> USE DEF TypeOK, DeletionStep, DeletionSteps
<1>1. ASSUME NEW r \in Repos, DeleteRequested(p, r)
      PROVE  TypeOK'
  <2>1. deletion' \in [Procs -> [pc : DeletionSteps, repo : Repos \cup {None},
                                 busy : BOOLEAN]]
    <3>1. [pc |-> "purge", repo |-> r, busy |-> FALSE]
             \in [pc : DeletionSteps, repo : Repos \cup {None}, busy : BOOLEAN]
      OBVIOUS
    <3>2. deletion' = [deletion EXCEPT ![p] = [pc |-> "purge", repo |-> r, busy |-> FALSE]]
      BY <1>1 DEF DeleteRequested
    <3>3. QED
      BY <3>1, <3>2
  <2>2. QED
    BY <1>1, <2>1 DEF DeleteRequested, tables
<1>2. CASE PurgeWaiting(p)
  <2>1. deletion' \in [Procs -> [pc : DeletionSteps, repo : Repos \cup {None},
                                 busy : BOOLEAN]]
    BY <1>2, DeletionGotoType DEF PurgeWaiting
  <2>2. QED
    BY <1>2, <2>1, DeleteType DEF PurgeWaiting
<1>3. CASE AwaitRepoIdle(p)
  <2>1. deletion' \in [Procs -> [pc : DeletionSteps, repo : Repos \cup {None},
                                 busy : BOOLEAN]]
    BY <1>3, DeletionGotoType DEF AwaitRepoIdle
  <2>2. QED
    BY <1>3, <2>1 DEF AwaitRepoIdle, tables
<1>4. CASE CheckRunning(p)
  <2>1. PICK b \in BOOLEAN :
          deletion' = [deletion EXCEPT ![p] =
                         [@ EXCEPT !.pc = IF b THEN "test" ELSE "wipe", !.busy = b]]
    BY <1>4 DEF CheckRunning
  <2>2. deletion' \in [Procs -> [pc : DeletionSteps, repo : Repos \cup {None},
                                 busy : BOOLEAN]]
    <3> DEFINE d == [deletion[p] EXCEPT !.pc = IF b THEN "test" ELSE "wipe", !.busy = b]
    <3>1. d \in [pc : DeletionSteps, repo : Repos \cup {None}, busy : BOOLEAN]
      OBVIOUS
    <3>2. deletion' = [deletion EXCEPT ![p] = d]
      BY <2>1
    <3> HIDE DEF d
    <3>3. QED
      BY <3>1, <3>2
  <2>3. QED
    BY <1>4, <2>2 DEF CheckRunning, tables
<1>5. CASE WipeRows(p)
  <2>1. progress' \in [Jobs -> JobStatus]
    BY <1>5 DEF WipeRows, JobStatus
  <2>2. QED
    BY <1>5, <2>1, DeleteType DEF WipeRows, DeletionGoto
<1>6. CASE DeleteReturns(p)
  BY <1>6 DEF DeleteReturns, NoDeletion, tables
<1>7. CASE DeleteRepeats(p)
  BY <1>7 DEF DeleteRepeats, DeletionGoto, tables
<1>8. QED
  BY <1>1, <1>2, <1>3, <1>4, <1>5, <1>6, <1>7 DEF DeleteNext

LEMMA TypeHouse ==
  ASSUME NEW p \in Procs, TypeOK,
         HouseNext(p) \/ CleanupTimer(p) \/ Crash(p) \/ Restart(p)
  PROVE  TypeOK'
<1> USE DEF TypeOK, HouseSteps
<1>1. CASE ResetRunningJobs(p)
  <2>1. \A row \in Row :
          [row EXCEPT !.status = "pending", !.claim = None, !.old = FALSE] \in Row
    BY DEF Row, JobStatus
  <2>2. jobs' \in [Jobs -> Row]
    BY <1>1, <2>1 DEF ResetRunningJobs
  <2>3. QED
    BY <1>1, <2>2 DEF ResetRunningJobs, HouseStep
<1>2. ASSUME CleanupExpiredState
      PROVE  /\ jobs' \in [Jobs -> Row] /\ before' \subseteq Jobs \X Jobs
             /\ progress' \in [Jobs -> JobStatus]
  BY <1>2, DeleteType DEF CleanupExpiredState, JobStatus
<1>3. CASE CleanupAtStart(p)
  <2>1. worker[p] \in [Workers -> WorkerState]
    OBVIOUS
  <2>2. QED
    BY <1>2, <1>3, <2>1, DrainType DEF CleanupAtStart, HouseStep
<1>4. CASE CleanupTimer(p)
  BY <1>2, <1>4 DEF CleanupTimer, HouseStep
<1>5. CASE Crash(p)
  <2>1. worker' \in [Procs -> [Workers -> WorkerState]]
    BY <1>5, AtType DEF Crash
  <2>2. QED
    BY <1>5, <2>1, Constant DEF Crash, NoDeletion, DeletionSteps, tables
<1>6. CASE Restart(p)
  BY <1>6 DEF Restart, tables
<1>7. QED
  BY <1>1, <1>3, <1>4, <1>5, <1>6 DEF HouseNext

LEMMA TypeNext == TypeOK /\ [Next]_vars => TypeOK'
<1> SUFFICES ASSUME TypeOK, [Next]_vars
             PROVE  TypeOK'
  OBVIOUS
<1>1. ASSUME NEW j \in Jobs, RowAges(j)
      PROVE  TypeOK'
  <2>1. jobs' = [jobs EXCEPT ![j].old = TRUE]
        /\ UNCHANGED <<before, progress, memory, enqueues, crashes>>
    BY <1>1 DEF RowAges
  <2>2. jobs \in [Jobs -> Row] /\ [jobs[j] EXCEPT !.old = TRUE] \in Row
    <3>1. jobs \in [Jobs -> Row] /\ jobs[j] \in Row
      BY DEF TypeOK
    <3>2. \A row \in Row : [row EXCEPT !.old = TRUE] \in Row
      BY DEF Row
    <3>3. QED
      BY <3>1, <3>2
  <2>3. jobs' \in [Jobs -> Row]
    BY <2>1, <2>2
  <2>4. QED
    BY <2>1, <2>3 DEF TypeOK, memory
<1>2. CASE UNCHANGED vars
  BY <1>2 DEF vars, TypeOK
<1>3. QED
  BY <1>1, <1>2, TypeEnqueue, TypeClaim, TypeProcess, TypeDelete, TypeHouse DEF Next

\* Every reachable state of the queue is well typed; in particular a worker has
\* a job exactly between its selection and its release.
THEOREM TypeCorrect == Spec => []TypeOK
  BY TypeInit, TypeNext, PTL DEF Spec

-----------------------------------------------------------------------------
(* One running row for each repository: the guard of markJobRunning.        *)

\* A row becomes running only when a worker claims it.
LEMMA RunningRows ==
  ASSUME TypeOK, [Next]_vars
  PROVE  \/ \E p \in Procs, w \in Workers :
              /\ JobOf(p, w) \in Jobs
              /\ Claimable(JobOf(p, w))
              /\ TakeRow(p, w, JobOf(p, w))
         \/ \A j \in Jobs : jobs'[j].status = "running" => jobs[j].status = "running"
<1> DEFINE NoNew == \A j \in Jobs : jobs'[j].status = "running" => jobs[j].status = "running"
<1> USE DEF TypeOK
<1>1. ASSUME NEW j \in Jobs, InsertJob(j)
      PROVE  NoNew
  BY <1>1 DEF InsertJob, NewRow, NoRow
<1>2. ASSUME NEW S, DeleteJobs(S)
      PROVE  NoNew
  BY <1>2 DEF DeleteJobs, NoRow
<1>3. ASSUME NEW j \in Jobs, NEW s \in {"pending", "completed", "failed"},
             jobs' = Settled(j, s)
      PROVE  NoNew
  BY <1>3 DEF Settled, Row
<1>4. CASE UNCHANGED jobs
  BY <1>4
<1>5. ASSUME NEW p \in Procs, NEW j \in Jobs,
             Enqueue(p, j) \/ EnqueueThrows(p, j) \/ EnqueueDrains(p, j)
      PROVE  NoNew
  BY <1>1, <1>4, <1>5 DEF Enqueue, EnqueueThrows, EnqueueDrains, tables
<1>6. ASSUME NEW p \in Procs, NEW w \in Workers, ClaimNext(p, w), ~ UNCHANGED jobs
      PROVE  /\ JobOf(p, w) \in Jobs
             /\ Claimable(JobOf(p, w))
             /\ TakeRow(p, w, JobOf(p, w))
  <2>1. MarkRunning(p, w) \/ MarkRunningAgain(p, w)
    BY <1>6 DEF ClaimNext, SelectJob, SelectNextPage, SelectNone, ClaimStep, MarkRefused,
                Adopt, tables
  <2>2. JobOf(p, w) \in Jobs
    BY <2>1, BusyHasJob DEF MarkRunning, MarkRunningAgain, MarkStep, BusySteps
  <2>3. QED
    BY <1>6, <2>1, <2>2 DEF MarkRunning, MarkRunningAgain
<1>7. ASSUME NEW p \in Procs, NEW w \in Workers, Process(p, w), ~ UNCHANGED jobs
      PROVE  NoNew
  <2>1. \/ MarkCompleted(p, w) \/ MarkCompletedThrows(p, w)
        \/ MarkPendingForRetry(p, w) \/ MarkFailed(p, w)
    BY <1>7 DEF Process, StartJob, ReportCompleted, StartJobThrows, JobThrows,
                ReportCompletedThrows, ReportRetry, ReportFailed, WorkerEnds, tables
  <2>2. worker[p][w].pc \in {"run", "requeue", "fail"}
    BY <2>1 DEF MarkCompleted, MarkCompletedThrows, MarkPendingForRetry, MarkFailed,
                InTry, WorkStep
  <2>3. JobOf(p, w) \in Jobs
    BY <2>2, BusyHasJob DEF BusySteps
  <2>4. \E s \in {"pending", "completed", "failed"} : jobs' = Settled(JobOf(p, w), s)
    BY <1>7, <2>1 DEF MarkCompleted, MarkCompletedThrows, MarkPendingForRetry, MarkFailed
  <2>5. QED
    BY <1>3, <2>3, <2>4
<1>8. ASSUME NEW p \in Procs, DeleteNext(p) \/ \E r \in Repos : DeleteRequested(p, r)
      PROVE  NoNew
  BY <1>2, <1>4, <1>8
     DEF DeleteNext, DeleteRequested, PurgeWaiting, AwaitRepoIdle, CheckRunning, WipeRows,
         DeleteReturns, DeleteRepeats, tables
<1>9. ASSUME NEW p \in Procs, ResetRunningJobs(p)
      PROVE  NoNew
  BY <1>9 DEF ResetRunningJobs, Row
<1>10. ASSUME NEW p \in Procs,
              CleanupAtStart(p) \/ CleanupTimer(p) \/ Crash(p) \/ Restart(p)
       PROVE  NoNew
  BY <1>2, <1>4, <1>10
     DEF CleanupAtStart, CleanupTimer, CleanupExpiredState, Crash, Restart, tables
<1>11. ASSUME NEW j \in Jobs, RowAges(j)
       PROVE  NoNew
  BY <1>11 DEF RowAges, Row
<1>12. CASE UNCHANGED vars
  BY <1>4, <1>12 DEF vars
<1>13. QED
  BY <1>4, <1>5, <1>6, <1>7, <1>8, <1>9, <1>10, <1>11, <1>12 DEF Next, HouseNext

\* Whatever crashes, overruns, retries or deletes, and however many processes
\* claim at once, two jobs of a repository never have running rows together.
THEOREM OneRunning == Spec => []OneRunningRow
<1>1. Init => OneRunningRow
  BY DEF Init, OneRunningRow, NoRow
<1>2. TypeOK /\ OneRunningRow /\ [Next]_vars => OneRunningRow'
  <2> SUFFICES ASSUME TypeOK, OneRunningRow, [Next]_vars
               PROVE  OneRunningRow'
    OBVIOUS
  <2>1. ASSUME NEW p \in Procs, NEW w \in Workers, JobOf(p, w) \in Jobs,
               Claimable(JobOf(p, w)), TakeRow(p, w, JobOf(p, w))
        PROVE  OneRunningRow'
    BY <2>1 DEF OneRunningRow, TakeRow, Claimable, RunningOf, TypeOK
  <2>2. CASE \A j \in Jobs : jobs'[j].status = "running" => jobs[j].status = "running"
    BY <2>2 DEF OneRunningRow
  <2>3. QED
    BY <2>1, <2>2, RunningRows
<1>3. QED
  BY <1>1, <1>2, TypeCorrect, PTL DEF Spec

-----------------------------------------------------------------------------
(* The claim lock makes the repository locks of a process exclusive.        *)

\* Why RepoLockExclusive is preserved: from SelectJob to Adopt the worker owns
\* the claim lock, so nobody locks the repository that it found unlocked.
LockInv ==
  \A p \in Procs :
    /\ \A r \in Repos :
         r \in runningRepoKeys[p] <=> \E w \in Workers : LocksRepo(p, w) /\ RepoOf[JobOf(p, w)] = r
    /\ \A v, w \in Workers :
         LocksRepo(p, v) /\ LocksRepo(p, w) /\ v # w
           => RepoOf[JobOf(p, v)] # RepoOf[JobOf(p, w)]
    /\ \A w \in Workers :
         worker[p][w].pc \in {"mark", "adopt"}
           => claimLock[p] = w /\ RepoOf[JobOf(p, w)] \notin runningRepoKeys[p]

\* The part of a worker that LockInv reads.
LockView(p, w) ==
  IF LocksRepo(p, w) THEN <<"locks", JobOf(p, w)>>
  ELSE IF worker[p][w].pc \in {"mark", "adopt"} THEN <<"claims", JobOf(p, w)>>
  ELSE <<"free", None>>

LEMMA LockViewCases ==
  ASSUME NEW p \in Procs, NEW w \in Workers
  PROVE  /\ LocksRepo(p, w) <=> LockView(p, w)[1] = "locks"
         /\ worker[p][w].pc \in {"mark", "adopt"} <=> LockView(p, w)[1] = "claims"
         /\ LockView(p, w)[1] \in {"locks", "claims"} => LockView(p, w)[2] = JobOf(p, w)
  BY DEF LockView, LocksRepo

LEMMA LockViewCasesPrime ==
  ASSUME NEW p \in Procs, NEW w \in Workers
  PROVE  /\ LocksRepo(p, w)' <=> LockView(p, w)'[1] = "locks"
         /\ worker'[p][w].pc \in {"mark", "adopt"} <=> LockView(p, w)'[1] = "claims"
         /\ LockView(p, w)'[1] \in {"locks", "claims"} => LockView(p, w)'[2] = JobOf(p, w)'
  BY DEF LockView, LocksRepo

\* A step that changes neither the locks nor what LockInv reads of a worker.
LEMMA LockStutter ==
  ASSUME LockInv, UNCHANGED <<claimLock, runningRepoKeys>>,
         \A p \in Procs, w \in Workers : LockView(p, w)' = LockView(p, w)
  PROVE  LockInv'
<1>1. \A p \in Procs, w \in Workers :
        /\ LocksRepo(p, w)' <=> LocksRepo(p, w)
        /\ worker'[p][w].pc \in {"mark", "adopt"} <=> worker[p][w].pc \in {"mark", "adopt"}
        /\ LocksRepo(p, w) \/ worker[p][w].pc \in {"mark", "adopt"}
             => JobOf(p, w)' = JobOf(p, w)
  BY LockViewCases, LockViewCasesPrime
<1>2. QED
  BY <1>1 DEF LockInv

\* drain() starts workers, which lock nothing yet.
LEMMA DrainView ==
  ASSUME NEW p \in Procs, NEW ws \in [Workers -> WorkerState], TypeOK, Drain(p, ws),
         \A w \in Workers : ws[w] = worker[p][w] \/ (ws[w].pc = "off" /\ worker[p][w].pc = "done")
  PROVE  \A q \in Procs, w \in Workers : LockView(q, w)' = LockView(q, w)
<1> SUFFICES ASSUME NEW q \in Procs, NEW w \in Workers
             PROVE  LockView(q, w)' = LockView(q, w)
  OBVIOUS
<1>1. \/ worker'[q][w] = worker[q][w]
      \/ worker[q][w].pc \in FreeSteps /\ worker'[q][w].pc \in FreeSteps
  <2>1. CASE q # p
    BY <2>1 DEF Drain, TypeOK
  <2>2. CASE q = p
    <3>1. worker'[p][w] = ws[w] \/ (ws[w].pc = "off" /\ worker'[p][w] = Claiming)
      BY DEF Drain, TypeOK
    <3>2. ws[w] = worker[p][w] \/ (ws[w].pc = "off" /\ worker[p][w].pc = "done")
      OBVIOUS
    <3>3. QED
      BY <2>2, <3>1, <3>2 DEF FreeSteps, Claiming, At
  <2>3. QED
    BY <2>1, <2>2
<1>2. QED
  BY <1>1 DEF LockView, LocksRepo, JobOf, FreeSteps

\* A worker that holds its repository moves on with the same job.
LEMMA GotoView ==
  ASSUME NEW p \in Procs, NEW w \in Workers, TypeOK, LocksRepo(p, w),
         NEW step \in {"start", "run", "report", "requeue", "requeued", "fail", "failed"},
         Goto(p, w, step)
  PROVE  \A q \in Procs, v \in Workers : LockView(q, v)' = LockView(q, v)
<1> SUFFICES ASSUME NEW q \in Procs, NEW v \in Workers
             PROVE  LockView(q, v)' = LockView(q, v)
  OBVIOUS
<1>1. CASE q = p /\ v = w
  <2>1. worker'[p][w].pc = step /\ worker'[p][w].job = worker[p][w].job
    BY WorkerAt DEF Goto, TypeOK, WorkerState, FreeWorker, BusyWorker
  <2>2. QED
    BY <1>1, <2>1 DEF LockView, LocksRepo, JobOf
<1>2. CASE ~ (q = p /\ v = w)
  <2>1. worker'[q][v] = worker[q][v]
    BY <1>2 DEF Goto, TypeOK
  <2>2. QED
    BY <2>1 DEF LockView, LocksRepo, JobOf
<1>3. QED
  BY <1>1, <1>2

\* The end of an iteration unlocks the repository of this worker alone.
LEMMA LockRelease ==
  ASSUME NEW p \in Procs, NEW w \in Workers, TypeOK, LockInv, LocksRepo(p, w),
         Release(p, w), UNCHANGED claimLock
  PROVE  LockInv'
<1>1. \A q \in Procs, v \in Workers :
        IF q = p /\ v = w THEN worker'[q][v] = Claiming ELSE worker'[q][v] = worker[q][v]
  BY DEF Release, TypeOK
<1>2. \A q \in Procs, v \in Workers :
        /\ LocksRepo(q, v)' <=> LocksRepo(q, v) /\ ~ (q = p /\ v = w)
        /\ worker'[q][v].pc \in {"mark", "adopt"} => worker[q][v].pc \in {"mark", "adopt"}
        /\ ~ (q = p /\ v = w) => JobOf(q, v)' = JobOf(q, v)
  BY <1>1 DEF LocksRepo, Claiming, At, JobOf
<1>3. \A q \in Procs : runningRepoKeys'[q] =
        IF q = p THEN runningRepoKeys[p] \ {RepoOf[JobOf(p, w)]} ELSE runningRepoKeys[q]
  BY DEF Release, TypeOK
<1>4. JobOf(p, w)' = None /\ worker'[p][w].pc = "claim"
  BY <1>1 DEF Claiming, At, JobOf
<1>5. QED
  BY <1>2, <1>3, <1>4 DEF LockInv

LEMMA LockClaim ==
  ASSUME NEW p \in Procs, NEW w \in Workers, TypeOK, LockInv, ClaimNext(p, w)
  PROVE  LockInv'
<1>1. CASE SelectJob(p, w)
  <2>1. PICK j \in Jobs :
          /\ RepoOf[j] \notin runningRepoKeys[p]
          /\ worker' = [worker EXCEPT ![p][w] =
                          [pc |-> "mark", job |-> j, seen |-> jobs[j].attempts, offset |-> 0]]
    BY <1>1 DEF SelectJob, Unlocked, Page, Pending
  <2>2. \A q \in Procs, v \in Workers : ~ (q = p /\ v = w) => worker'[q][v] = worker[q][v]
    BY <2>1 DEF TypeOK
  <2>3. worker'[p][w].pc = "mark" /\ worker'[p][w].job = j
    BY <2>1 DEF TypeOK
  <2>4. /\ worker[p][w].pc = "claim"
        /\ claimLock[p] \in {None, w}
        /\ runningRepoKeys' = runningRepoKeys
        /\ \A q \in Procs : claimLock'[q] = IF q = p THEN w ELSE claimLock[q]
    BY <1>1 DEF SelectJob, ClaimStep, OwnsClaimLock, TypeOK
  <2>5. QED
    BY <2>1, <2>2, <2>3, <2>4, NoneIsNoJob DEF LockInv, LocksRepo, JobOf
<1>2. CASE SelectNextPage(p, w) \/ SelectNone(p, w)
  <2>1. \A q \in Procs, v \in Workers : ~ (q = p /\ v = w) => worker'[q][v] = worker[q][v]
    BY <1>2 DEF SelectNextPage, SelectNone, TypeOK
  <2>2. /\ worker[p][w].pc = "claim"
        /\ claimLock[p] \in {None, w}
        /\ runningRepoKeys' = runningRepoKeys
        /\ \A q \in Procs : q # p => claimLock'[q] = claimLock[q]
    BY <1>2 DEF SelectNextPage, SelectNone, ClaimStep, OwnsClaimLock, TypeOK
  <2>3. worker'[p][w].pc \in FreeSteps
    <3>1. CASE SelectNextPage(p, w)
      BY <3>1, <2>2, WorkerAt DEF SelectNextPage, TypeOK, FreeSteps, WorkerState, FreeWorker,
                                  BusyWorker
    <3>2. CASE SelectNone(p, w)
      BY <3>2 DEF SelectNone, TypeOK, FreeSteps, Done, At
    <3>3. QED
      BY <1>2, <3>1, <3>2
  <2>4. QED
    BY <2>1, <2>2, <2>3, NoneIsNoJob DEF LockInv, LocksRepo, JobOf, FreeSteps
<1>3. CASE MarkRunning(p, w)
  <2>1. \A q \in Procs, v \in Workers : ~ (q = p /\ v = w) => worker'[q][v] = worker[q][v]
    BY <1>3 DEF MarkRunning, Goto, TypeOK
  <2>2. worker[p][w].pc = "mark" /\ UNCHANGED <<claimLock, runningRepoKeys>>
    BY <1>3 DEF MarkRunning, MarkStep
  <2>3. worker'[p][w].pc = "adopt" /\ worker'[p][w].job = worker[p][w].job
    BY <1>3, WorkerAt DEF MarkRunning, Goto, TypeOK, WorkerState, FreeWorker, BusyWorker
  <2>4. QED
    BY <2>1, <2>2, <2>3 DEF LockInv, LocksRepo, JobOf
<1>4. CASE MarkRunningAgain(p, w)
  BY <1>4 DEF MarkRunningAgain, MarkStep, LockInv, LocksRepo, JobOf
<1>5. CASE MarkRefused(p, w)
  <2>1. \A q \in Procs, v \in Workers : ~ (q = p /\ v = w) => worker'[q][v] = worker[q][v]
    BY <1>5 DEF MarkRefused, TypeOK
  <2>2. /\ worker[p][w].pc = "mark"
        /\ UNCHANGED runningRepoKeys
        /\ \A q \in Procs : q # p => claimLock'[q] = claimLock[q]
    BY <1>5 DEF MarkRefused, MarkStep, TypeOK
  <2>3. worker'[p][w].pc = "done"
    BY <1>5 DEF MarkRefused, TypeOK, Done, At
  <2>4. QED
    BY <2>1, <2>2, <2>3, NoneIsNoJob DEF LockInv, LocksRepo, JobOf
<1>6. CASE Adopt(p, w)
  <2>1. \A q \in Procs, v \in Workers : ~ (q = p /\ v = w) => worker'[q][v] = worker[q][v]
    BY <1>6 DEF Adopt, Goto, TypeOK
  <2>2. worker'[p][w].pc = "start" /\ worker'[p][w].job = worker[p][w].job
    BY <1>6, WorkerAt DEF Adopt, Goto, TypeOK, WorkerState, FreeWorker, BusyWorker
  <2>3. /\ worker[p][w].pc = "adopt"
        /\ \A q \in Procs : runningRepoKeys'[q] =
             IF q = p THEN runningRepoKeys[p] \cup {RepoOf[JobOf(p, w)]} ELSE runningRepoKeys[q]
        /\ \A q \in Procs : q # p => claimLock'[q] = claimLock[q]
    BY <1>6 DEF Adopt, TypeOK
  <2>4. /\ RepoOf[JobOf(p, w)] \in Repos
        /\ RepoOf[JobOf(p, w)] \notin runningRepoKeys[p]
        /\ \A v \in Workers : v # w => worker[p][v].pc \notin {"mark", "adopt"}
    <3>1. claimLock[p] = w /\ RepoOf[JobOf(p, w)] \notin runningRepoKeys[p]
      BY <2>3 DEF LockInv
    <3>2. \A v \in Workers : v # w => worker[p][v].pc \notin {"mark", "adopt"}
      BY <3>1 DEF LockInv
    <3>3. QED
      BY <2>3, <3>1, <3>2, BusyHasJob, RepoOfType DEF BusySteps
  <2>5. \A q \in Procs, v \in Workers :
          /\ LocksRepo(q, v)' <=> LocksRepo(q, v) \/ (q = p /\ v = w)
          /\ worker'[q][v].pc \in {"mark", "adopt"}
               <=> worker[q][v].pc \in {"mark", "adopt"} /\ ~ (q = p /\ v = w)
          /\ JobOf(q, v)' = JobOf(q, v)
    BY <2>1, <2>2, <2>3 DEF LocksRepo, JobOf
  <2>6. ~ LocksRepo(p, w)
    BY <2>3 DEF LocksRepo
  <2>7. QED
    BY <2>3, <2>4, <2>5, <2>6 DEF LockInv
<1>7. QED
  BY <1>1, <1>2, <1>3, <1>4, <1>5, <1>6 DEF ClaimNext

LEMMA LockProcess ==
  ASSUME NEW p \in Procs, NEW w \in Workers, TypeOK, LockInv, Process(p, w)
  PROVE  LockInv'
<1>1. ASSUME NEW step \in {"start", "run", "requeue", "fail", "report"}, InTry(p, w, step),
             \/ \E next \in {"run", "report", "requeued", "failed"} : Goto(p, w, next)
             \/ Caught(p, w)
      PROVE  LockInv'
  <2>1. LocksRepo(p, w) /\ UNCHANGED <<claimLock, runningRepoKeys>>
    BY <1>1 DEF InTry, WorkStep, LocksRepo
  <2>2. \E next \in {"start", "run", "report", "requeue", "requeued", "fail", "failed"} :
          Goto(p, w, next)
    BY <1>1 DEF Caught
  <2>3. QED
    BY <2>1, <2>2, GotoView, LockStutter
<1>2. CASE \/ StartJob(p, w) \/ StartJobThrows(p, w) \/ JobThrows(p, w)
           \/ MarkCompleted(p, w) \/ MarkCompletedThrows(p, w) \/ ReportCompletedThrows(p, w)
           \/ MarkPendingForRetry(p, w) \/ MarkFailed(p, w)
  <2>1. \E step \in {"start", "run", "requeue", "fail", "report"} : InTry(p, w, step)
    BY <1>2 DEF StartJob, StartJobThrows, JobThrows, MarkCompleted, MarkCompletedThrows,
                ReportCompletedThrows, MarkPendingForRetry, MarkFailed
  <2>2. \/ \E next \in {"run", "report", "requeued", "failed"} : Goto(p, w, next)
        \/ Caught(p, w)
    BY <1>2 DEF StartJob, StartJobThrows, JobThrows, MarkCompleted, MarkCompletedThrows,
                ReportCompletedThrows, MarkPendingForRetry, MarkFailed
  <2>3. QED
    BY <1>1, <2>1, <2>2
<1>3. CASE ReportCompleted(p, w) \/ ReportRetry(p, w) \/ ReportFailed(p, w)
  BY <1>3, LockRelease DEF ReportCompleted, ReportRetry, ReportFailed, WorkStep, LocksRepo
<1>4. CASE WorkerEnds(p, w)
  <2> DEFINE ws == [worker[p] EXCEPT ![w] = Off]
  <2>1. /\ worker[p] \in [Workers -> WorkerState]
        /\ ws \in [Workers -> WorkerState]
    BY AtType DEF TypeOK
  <2>2. worker[p][w].pc = "done" /\ UNCHANGED <<claimLock, runningRepoKeys>>
    BY <1>4 DEF WorkerEnds
  <2>3. \A v \in Workers : ws[v] = worker[p][v] \/ (ws[v].pc = "off" /\ worker[p][v].pc = "done")
    <3>1. \A v \in Workers : ws[v] = IF v = w THEN Off ELSE worker[p][v]
      BY <2>1
    <3>2. QED
      BY <3>1, <2>2 DEF Off, At
  <2>4. CASE Drain(p, ws)
    BY <2>1, <2>2, <2>3, <2>4, DrainView, LockStutter
  <2>5. CASE worker' = [worker EXCEPT ![p] = ws]
    <3>1. \A q \in Procs, v \in Workers :
            \/ worker'[q][v] = worker[q][v]
            \/ worker[q][v].pc \in FreeSteps /\ worker'[q][v].pc \in FreeSteps
      BY <2>1, <2>3, <2>5 DEF TypeOK, FreeSteps
    <3>2. \A q \in Procs, v \in Workers : LockView(q, v)' = LockView(q, v)
      BY <3>1 DEF LockView, LocksRepo, JobOf, FreeSteps
    <3>3. QED
      BY <2>2, <3>2, LockStutter
  <2>6. QED
    BY <1>4, <2>4, <2>5 DEF WorkerEnds
<1>5. QED
  BY <1>2, <1>3, <1>4 DEF Process

LEMMA LockNext == TypeOK /\ LockInv /\ [Next]_vars => LockInv'
<1> SUFFICES ASSUME TypeOK, LockInv, [Next]_vars
             PROVE  LockInv'
  OBVIOUS
<1>1. ASSUME UNCHANGED <<worker, claimLock, runningRepoKeys>>
      PROVE  LockInv'
  BY <1>1, LockStutter DEF LockView, LocksRepo, JobOf
<1>2. ASSUME NEW p \in Procs, Drain(p, worker[p]), UNCHANGED <<claimLock, runningRepoKeys>>
      PROVE  LockInv'
  <2>1. worker[p] \in [Workers -> WorkerState]
    BY DEF TypeOK
  <2>2. \A q \in Procs, v \in Workers : LockView(q, v)' = LockView(q, v)
    BY <1>2, <2>1, DrainView
  <2>3. QED
    BY <1>2, <2>2, LockStutter
<1>3. ASSUME NEW p \in Procs, NEW j \in Jobs,
             Enqueue(p, j) \/ EnqueueThrows(p, j) \/ EnqueueDrains(p, j)
      PROVE  LockInv'
  BY <1>1, <1>2, <1>3 DEF Enqueue, EnqueueThrows, EnqueueDrains, memory
<1>4. ASSUME NEW p \in Procs, DeleteNext(p) \/ \E r \in Repos : DeleteRequested(p, r)
      PROVE  LockInv'
  BY <1>1, <1>4
     DEF DeleteNext, DeleteRequested, PurgeWaiting, AwaitRepoIdle, CheckRunning, WipeRows,
         DeleteReturns, DeleteRepeats, DeletionStep
<1>5. ASSUME NEW p \in Procs, HouseNext(p) \/ CleanupTimer(p) \/ Restart(p)
      PROVE  LockInv'
  BY <1>1, <1>2, <1>5
     DEF HouseNext, ResetRunningJobs, CleanupAtStart, CleanupTimer, Restart, HouseStep
<1>6. ASSUME NEW p \in Procs, Crash(p)
      PROVE  LockInv'
  <2>1. \A q \in Procs, v \in Workers :
          worker'[q][v] = IF q = p THEN Off ELSE worker[q][v]
    BY <1>6 DEF Crash, TypeOK
  <2>2. \A q \in Procs :
          /\ runningRepoKeys'[q] = IF q = p THEN {} ELSE runningRepoKeys[q]
          /\ claimLock'[q] = IF q = p THEN None ELSE claimLock[q]
    BY <1>6 DEF Crash, TypeOK
  <2>3. QED
    BY <2>1, <2>2 DEF LockInv, LocksRepo, JobOf, Off, At
<1>7. ASSUME NEW j \in Jobs, RowAges(j)
      PROVE  LockInv'
  BY <1>1, <1>7 DEF RowAges, memory
<1>8. CASE UNCHANGED vars
  BY <1>1, <1>8 DEF vars
<1>9. QED
  BY <1>3, <1>4, <1>5, <1>6, <1>7, <1>8, LockClaim, LockProcess DEF Next

\* In every process the claim lock keeps two workers from holding the same
\* repository, and runningRepoKeys holds exactly the repositories in work.
THEOREM LockExclusive == Spec => []RepoLockExclusive
<1>1. Init => LockInv
  BY DEF Init, LockInv, LocksRepo, Off, At
<1>2. TypeOK /\ LockInv => RepoLockExclusive
  <2> SUFFICES ASSUME TypeOK, LockInv, NEW p \in Procs
               PROVE  /\ runningRepoKeys[p] =
                           {RepoOf[JobOf(p, w)] : w \in {v \in Workers : LocksRepo(p, v)}}
                      /\ \A v, w \in Workers :
                           LocksRepo(p, v) /\ LocksRepo(p, w) /\ v # w
                             => RepoOf[JobOf(p, v)] # RepoOf[JobOf(p, w)]
    BY DEF RepoLockExclusive
  <2>1. runningRepoKeys[p] \subseteq Repos
    BY DEF TypeOK
  <2>2. \A w \in Workers : LocksRepo(p, w) => RepoOf[JobOf(p, w)] \in Repos
    BY BusyHasJob, RepoOfType DEF LocksRepo, BusySteps
  <2>3. QED
    BY <2>1, <2>2 DEF LockInv
<1>3. QED
  BY <1>1, <1>2, LockNext, TypeCorrect, PTL DEF Spec

-----------------------------------------------------------------------------
(* A drain() that finds no free slot is not lost.                           *)

LEMMA DrainFills ==
  ASSUME NEW p \in Procs, NEW ws \in [Workers -> WorkerState], TypeOK, Drain(p, ws),
         DrainRemembered
  PROVE  DrainRemembered'
<1>1. \A q \in Procs : q # p => worker'[q] = worker[q] /\ drainRequested'[q] = drainRequested[q]
  BY DEF Drain, TypeOK
<1>2. drainRequested'[p] => \A w \in Workers : worker'[p][w].pc # "off"
  BY DEF Drain, TypeOK
<1>3. Workers # {}
  BY QueueAssumption DEF QueueAssumption
<1>4. QED
  BY <1>1, <1>2, <1>3 DEF DrainRemembered

\* A step of one worker that does not free its slot.
LEMMA SlotKept ==
  ASSUME NEW p \in Procs, NEW w \in Workers, TypeOK, DrainRemembered,
         UNCHANGED drainRequested,
         \A q \in Procs, v \in Workers : ~ (q = p /\ v = w) => worker'[q][v] = worker[q][v],
         worker'[p][w].pc # "off"
  PROVE  DrainRemembered'
  BY DEF DrainRemembered

LEMMA GotoSlot ==
  ASSUME NEW p \in Procs, NEW w \in Workers, TypeOK, NEW step \in BusySteps,
         Goto(p, w, step)
  PROVE  /\ \A q \in Procs, v \in Workers :
              ~ (q = p /\ v = w) => worker'[q][v] = worker[q][v]
         /\ worker'[p][w].pc # "off"
<1>1. \A q \in Procs, v \in Workers : ~ (q = p /\ v = w) => worker'[q][v] = worker[q][v]
  BY DEF Goto, TypeOK
<1>2. worker'[p][w].pc = step
  BY WorkerAt DEF Goto, TypeOK, WorkerState, FreeWorker, BusyWorker
<1>3. QED
  BY <1>1, <1>2 DEF BusySteps

LEMMA DrainClaim ==
  ASSUME NEW p \in Procs, NEW w \in Workers, TypeOK, DrainRemembered, ClaimNext(p, w)
  PROVE  DrainRemembered'
<1> DEFINE Others == \A q \in Procs, v \in Workers :
                       ~ (q = p /\ v = w) => worker'[q][v] = worker[q][v]
<1>1. UNCHANGED drainRequested
  BY DEF ClaimNext, SelectJob, SelectNextPage, SelectNone, ClaimStep, MarkRunning,
         MarkRunningAgain, MarkRefused, MarkStep, Adopt
<1>2. CASE SelectJob(p, w)
  <2>1. PICK j : worker' = [worker EXCEPT ![p][w] =
                   [pc |-> "mark", job |-> j, seen |-> jobs[j].attempts, offset |-> 0]]
    BY <1>2 DEF SelectJob
  <2>2. Others /\ worker'[p][w].pc = "mark"
    BY <2>1 DEF TypeOK
  <2>3. QED
    BY <1>1, <2>2, SlotKept
<1>3. CASE SelectNextPage(p, w)
  <2>1. Others
    BY <1>3 DEF SelectNextPage, TypeOK
  <2>2. worker'[p][w].pc = "claim"
    BY <1>3, WorkerAt DEF SelectNextPage, ClaimStep, TypeOK, WorkerState, FreeWorker,
                          BusyWorker
  <2>3. QED
    BY <1>1, <2>1, <2>2, SlotKept
<1>4. CASE SelectNone(p, w) \/ MarkRefused(p, w)
  <2>1. worker' = [worker EXCEPT ![p][w] = Done] /\ Done.pc # "off"
    BY <1>4 DEF SelectNone, MarkRefused, Done, At
  <2>2. Others /\ worker'[p][w] = Done
    BY <2>1 DEF TypeOK
  <2>3. QED
    BY <1>1, <2>1, <2>2, SlotKept
<1>5. CASE MarkRunning(p, w) \/ Adopt(p, w)
  <2>1. \E step \in BusySteps : Goto(p, w, step)
    BY <1>5 DEF MarkRunning, Adopt, BusySteps
  <2>2. QED
    BY <1>1, <2>1, GotoSlot, SlotKept
<1>6. CASE MarkRunningAgain(p, w)
  BY <1>1, <1>6 DEF MarkRunningAgain, DrainRemembered
<1>7. QED
  BY <1>2, <1>3, <1>4, <1>5, <1>6 DEF ClaimNext

LEMMA DrainProcess ==
  ASSUME NEW p \in Procs, NEW w \in Workers, TypeOK, DrainRemembered, Process(p, w)
  PROVE  DrainRemembered'
<1>1. CASE \/ StartJob(p, w) \/ StartJobThrows(p, w) \/ JobThrows(p, w)
           \/ MarkCompleted(p, w) \/ MarkCompletedThrows(p, w) \/ ReportCompletedThrows(p, w)
           \/ MarkPendingForRetry(p, w) \/ MarkFailed(p, w)
  <2>1. UNCHANGED drainRequested
    BY <1>1 DEF StartJob, StartJobThrows, JobThrows, MarkCompleted, MarkCompletedThrows,
                ReportCompletedThrows, MarkPendingForRetry, MarkFailed, InTry, WorkStep
  <2>2. \E step \in BusySteps : Goto(p, w, step)
    BY <1>1 DEF StartJob, StartJobThrows, JobThrows, MarkCompleted, MarkCompletedThrows,
                ReportCompletedThrows, MarkPendingForRetry, MarkFailed, Caught, BusySteps
  <2>3. QED
    BY <2>1, <2>2, GotoSlot, SlotKept
<1>2. CASE ReportCompleted(p, w) \/ ReportRetry(p, w) \/ ReportFailed(p, w)
  <2>1. UNCHANGED drainRequested /\ worker' = [worker EXCEPT ![p][w] = Claiming]
    BY <1>2 DEF ReportCompleted, ReportRetry, ReportFailed, WorkStep, Release
  <2>2. /\ \A q \in Procs, v \in Workers :
             ~ (q = p /\ v = w) => worker'[q][v] = worker[q][v]
        /\ worker'[p][w] = Claiming
    BY <2>1 DEF TypeOK
  <2>3. QED
    BY <2>1, <2>2, SlotKept DEF Claiming, At
<1>3. CASE WorkerEnds(p, w)
  <2> DEFINE ws == [worker[p] EXCEPT ![w] = Off]
  <2>1. ws \in [Workers -> WorkerState]
    BY AtType DEF TypeOK
  <2>2. CASE Drain(p, ws)
    BY <2>1, <2>2, DrainFills
  <2>3. CASE ~ drainRequested[p] /\ worker' = [worker EXCEPT ![p] = ws] /\ UNCHANGED drainRequested
    BY <2>3 DEF DrainRemembered, TypeOK
  <2>4. QED
    BY <1>3, <2>2, <2>3 DEF WorkerEnds
<1>4. QED
  BY <1>1, <1>2, <1>3 DEF Process

\* A drain() that found every slot busy is never lost: whenever one is pending,
\* some worker of the process will reach its finally handler.
THEOREM DrainKept == Spec => []DrainRemembered
<1>1. Init => DrainRemembered
  BY DEF Init, DrainRemembered
<1>2. TypeOK /\ DrainRemembered /\ [Next]_vars => DrainRemembered'
  <2> SUFFICES ASSUME TypeOK, DrainRemembered, [Next]_vars
               PROVE  DrainRemembered'
    OBVIOUS
  <2>1. ASSUME UNCHANGED <<worker, drainRequested>>
        PROVE  DrainRemembered'
    BY <2>1 DEF DrainRemembered
  <2>2. ASSUME NEW p \in Procs, Drain(p, worker[p])
        PROVE  DrainRemembered'
    BY <2>2, DrainFills DEF TypeOK
  <2>3. ASSUME NEW p \in Procs, NEW j \in Jobs,
               Enqueue(p, j) \/ EnqueueThrows(p, j) \/ EnqueueDrains(p, j)
        PROVE  DrainRemembered'
    BY <2>1, <2>2, <2>3 DEF Enqueue, EnqueueThrows, EnqueueDrains, memory
  <2>4. ASSUME NEW p \in Procs, DeleteNext(p) \/ \E r \in Repos : DeleteRequested(p, r)
        PROVE  DrainRemembered'
    BY <2>1, <2>4
       DEF DeleteNext, DeleteRequested, PurgeWaiting, AwaitRepoIdle, CheckRunning, WipeRows,
           DeleteReturns, DeleteRepeats, DeletionStep
  <2>5. ASSUME NEW p \in Procs, HouseNext(p) \/ CleanupTimer(p) \/ Restart(p)
        PROVE  DrainRemembered'
    BY <2>1, <2>2, <2>5
       DEF HouseNext, ResetRunningJobs, CleanupAtStart, CleanupTimer, Restart
  <2>6. ASSUME NEW p \in Procs, Crash(p)
        PROVE  DrainRemembered'
    <3>1. ~ drainRequested'[p]
      BY <2>6 DEF Crash, TypeOK
    <3>2. \A q \in Procs : q # p => worker'[q] = worker[q] /\ drainRequested'[q] = drainRequested[q]
      BY <2>6 DEF Crash, TypeOK
    <3>3. QED
      BY <3>1, <3>2 DEF DrainRemembered
  <2>7. ASSUME NEW j \in Jobs, RowAges(j)
        PROVE  DrainRemembered'
    BY <2>1, <2>7 DEF RowAges, memory
  <2>8. CASE UNCHANGED vars
    BY <2>1, <2>8 DEF vars
  <2>9. QED
    BY <2>3, <2>4, <2>5, <2>6, <2>7, <2>8, DrainClaim, DrainProcess DEF Next
<1>3. QED
  BY <1>1, <1>2, TypeCorrect, PTL DEF Spec

-----------------------------------------------------------------------------
(* Jobs of one repository never run together, as long as nothing takes the *)
(* running row from under a worker.                                        *)

\* No job outlives runningJobTimeoutMs, no write of a finished job fails, and
\* no owner deletes a repository.
Undisturbed ==
  /\ Events \cap {"overrun", "progressError", "completeError"} = {}
  /\ Deletable = {}

\* From its committed claim to the settling update, a worker owns the row.
OwnSteps == {"adopt", "start", "run", "requeue", "fail"}

OwnsRow(p, w, j) ==
  jobs[j].status = "running" /\ jobs[j].claim = <<p, w>> /\ ~ jobs[j].old

\* Why RepoSerialized is preserved: whoever executes owns a row that is
\* running, and a running row has one owner.
OwnInv ==
  /\ \A p \in Procs : deletion[p].pc = "idle"
  /\ \A p \in Procs, w \in Workers :
       /\ worker[p][w].pc \in OwnSteps => OwnsRow(p, w, JobOf(p, w))
       /\ worker[p][w].pc = "mark" /\ ClaimVerified(p, w) => ~ jobs[JobOf(p, w)].old

\* What one step does to a worker.
WorkerMoves(p, w) ==
  \/ worker'[p][w] = worker[p][w]
  \/ worker'[p][w].pc \in FreeSteps \cup {"report", "requeued", "failed"}
  \/ /\ worker[p][w].pc \in OwnSteps /\ worker'[p][w].pc \in OwnSteps
     /\ worker'[p][w].job = worker[p][w].job
  \/ MarkRunning(p, w) /\ worker'[p][w].pc = "adopt" /\ worker'[p][w].job = worker[p][w].job
  \/ /\ worker'[p][w].pc = "mark" /\ UNCHANGED jobs
     /\ jobs[worker'[p][w].job].status = "pending"

LEMMA MovesDrain ==
  ASSUME NEW p \in Procs, NEW ws \in [Workers -> WorkerState], TypeOK, Drain(p, ws),
         \A w \in Workers : ws[w] = worker[p][w] \/ ws[w].pc = "off"
  PROVE  \A q \in Procs, v \in Workers : WorkerMoves(q, v)
<1> SUFFICES ASSUME NEW q \in Procs, NEW v \in Workers
             PROVE  WorkerMoves(q, v)
  OBVIOUS
<1>1. CASE q # p
  BY <1>1 DEF Drain, TypeOK, WorkerMoves
<1>2. CASE q = p
  <2>1. worker'[p][v] = ws[v] \/ worker'[p][v] = Claiming
    BY DEF Drain, TypeOK
  <2>2. QED
    BY <1>2, <2>1 DEF WorkerMoves, FreeSteps, Claiming, At
<1>3. QED
  BY <1>1, <1>2

LEMMA MovesGoto ==
  ASSUME NEW p \in Procs, NEW w \in Workers, TypeOK, NEW step, Goto(p, w, step)
  PROVE  /\ \A q \in Procs, v \in Workers :
              ~ (q = p /\ v = w) => worker'[q][v] = worker[q][v]
         /\ worker'[p][w].pc = step /\ worker'[p][w].job = worker[p][w].job
<1>1. \A q \in Procs, v \in Workers : ~ (q = p /\ v = w) => worker'[q][v] = worker[q][v]
  BY DEF Goto, TypeOK
<1>2. worker'[p][w].pc = step /\ worker'[p][w].job = worker[p][w].job
  BY WorkerAt DEF Goto, TypeOK, WorkerState, FreeWorker, BusyWorker
<1>3. QED
  BY <1>1, <1>2

LEMMA MovesClaim ==
  ASSUME NEW p \in Procs, NEW w \in Workers, TypeOK, ClaimNext(p, w)
  PROVE  \A q \in Procs, v \in Workers : WorkerMoves(q, v)
<1> DEFINE Others == \A q \in Procs, v \in Workers :
                       ~ (q = p /\ v = w) => worker'[q][v] = worker[q][v]
<1>1. Others /\ WorkerMoves(p, w) => \A q \in Procs, v \in Workers : WorkerMoves(q, v)
  BY DEF WorkerMoves
<1>2. CASE SelectJob(p, w)
  <2>1. PICK j \in Jobs :
          /\ jobs[j].status = "pending"
          /\ worker' = [worker EXCEPT ![p][w] =
                          [pc |-> "mark", job |-> j, seen |-> jobs[j].attempts, offset |-> 0]]
    BY <1>2 DEF SelectJob, Unlocked, Page, Pending
  <2>2. Others /\ worker'[p][w].pc = "mark" /\ worker'[p][w].job = j
    BY <2>1 DEF TypeOK
  <2>3. UNCHANGED jobs
    BY <1>2 DEF SelectJob, ClaimStep, tables
  <2>4. QED
    BY <1>1, <2>1, <2>2, <2>3 DEF WorkerMoves
<1>3. CASE SelectNextPage(p, w)
  <2>1. Others
    BY <1>3 DEF SelectNextPage, TypeOK
  <2>2. worker'[p][w].pc = "claim"
    BY <1>3, WorkerAt DEF SelectNextPage, ClaimStep, TypeOK, WorkerState, FreeWorker,
                          BusyWorker
  <2>3. QED
    BY <1>1, <2>1, <2>2 DEF WorkerMoves, FreeSteps
<1>4. CASE SelectNone(p, w) \/ MarkRefused(p, w)
  <2>1. Others /\ worker'[p][w] = Done
    BY <1>4 DEF SelectNone, MarkRefused, TypeOK
  <2>2. QED
    BY <1>1, <2>1 DEF WorkerMoves, FreeSteps, Done, At
<1>5. CASE MarkRunning(p, w)
  <2>1. Goto(p, w, "adopt")
    BY <1>5 DEF MarkRunning
  <2>2. QED
    BY <1>1, <1>5, <2>1, MovesGoto DEF WorkerMoves
<1>6. CASE MarkRunningAgain(p, w)
  BY <1>6 DEF MarkRunningAgain, WorkerMoves
<1>7. CASE Adopt(p, w)
  <2>1. Goto(p, w, "start") /\ worker[p][w].pc = "adopt"
    BY <1>7 DEF Adopt
  <2>2. QED
    BY <1>1, <2>1, MovesGoto DEF WorkerMoves, OwnSteps
<1>8. QED
  BY <1>2, <1>3, <1>4, <1>5, <1>6, <1>7 DEF ClaimNext

LEMMA MovesProcess ==
  ASSUME NEW p \in Procs, NEW w \in Workers, TypeOK, Undisturbed, Process(p, w)
  PROVE  \A q \in Procs, v \in Workers : WorkerMoves(q, v)
<1> DEFINE Others == \A q \in Procs, v \in Workers :
                       ~ (q = p /\ v = w) => worker'[q][v] = worker[q][v]
<1>1. Others /\ WorkerMoves(p, w) => \A q \in Procs, v \in Workers : WorkerMoves(q, v)
  BY DEF WorkerMoves
<1>2. CASE StartJob(p, w) \/ JobThrows(p, w)
  <2>1. worker[p][w].pc \in OwnSteps
    BY <1>2 DEF StartJob, JobThrows, InTry, WorkStep, OwnSteps
  <2>2. \E step \in OwnSteps : Goto(p, w, step)
    BY <1>2 DEF StartJob, JobThrows, Caught, OwnSteps
  <2>3. QED
    BY <1>1, <2>1, <2>2, MovesGoto DEF WorkerMoves
<1>3. CASE MarkCompleted(p, w) \/ MarkPendingForRetry(p, w) \/ MarkFailed(p, w)
  <2>1. \E step \in {"report", "requeued", "failed"} : Goto(p, w, step)
    BY <1>3 DEF MarkCompleted, MarkPendingForRetry, MarkFailed
  <2>2. QED
    BY <1>1, <2>1, MovesGoto DEF WorkerMoves
<1>4. CASE ReportCompleted(p, w) \/ ReportRetry(p, w) \/ ReportFailed(p, w)
  <2>1. worker' = [worker EXCEPT ![p][w] = Claiming]
    BY <1>4 DEF ReportCompleted, ReportRetry, ReportFailed, Release
  <2>2. Others /\ worker'[p][w] = Claiming
    BY <2>1 DEF TypeOK
  <2>3. QED
    BY <1>1, <2>2 DEF WorkerMoves, FreeSteps, Claiming, At
<1>5. CASE WorkerEnds(p, w)
  <2> DEFINE ws == [worker[p] EXCEPT ![w] = Off]
  <2>1. ws \in [Workers -> WorkerState]
    BY AtType DEF TypeOK
  <2>2. \A v \in Workers : ws[v] = IF v = w THEN Off ELSE worker[p][v]
    BY DEF TypeOK
  <2>3. CASE Drain(p, ws)
    <3>1. \A v \in Workers : ws[v] = worker[p][v] \/ ws[v].pc = "off"
      BY <2>2 DEF Off, At
    <3>2. QED
      BY <2>1, <2>3, <3>1, MovesDrain
  <2>4. CASE worker' = [worker EXCEPT ![p] = ws]
    <3>1. Others /\ worker'[p][w] = Off
      BY <2>2, <2>4 DEF TypeOK
    <3>2. QED
      BY <1>1, <3>1 DEF WorkerMoves, FreeSteps, Off, At
  <2>5. QED
    BY <1>5, <2>3, <2>4 DEF WorkerEnds
<1>6. ~ (StartJobThrows(p, w) \/ MarkCompletedThrows(p, w) \/ ReportCompletedThrows(p, w))
  BY DEF Undisturbed, StartJobThrows, MarkCompletedThrows, ReportCompletedThrows
<1>7. QED
  BY <1>2, <1>3, <1>4, <1>5, <1>6 DEF Process

LEMMA Moves ==
  ASSUME TypeOK, Undisturbed, [Next]_vars
  PROVE  \A p \in Procs, w \in Workers : WorkerMoves(p, w)
<1>1. CASE UNCHANGED worker
  BY <1>1 DEF WorkerMoves
<1>2. ASSUME NEW p \in Procs, Drain(p, worker[p])
      PROVE  \A q \in Procs, w \in Workers : WorkerMoves(q, w)
  <2>1. worker[p] \in [Workers -> WorkerState]
    BY DEF TypeOK
  <2>2. QED
    BY <1>2, <2>1, MovesDrain
<1>3. ASSUME NEW p \in Procs, NEW j \in Jobs,
             Enqueue(p, j) \/ EnqueueThrows(p, j) \/ EnqueueDrains(p, j)
      PROVE  \A q \in Procs, w \in Workers : WorkerMoves(q, w)
  BY <1>1, <1>2, <1>3 DEF Enqueue, EnqueueThrows, EnqueueDrains, memory
<1>4. ASSUME NEW p \in Procs, DeleteNext(p) \/ \E r \in Repos : DeleteRequested(p, r)
      PROVE  \A q \in Procs, w \in Workers : WorkerMoves(q, w)
  BY <1>1, <1>4
     DEF DeleteNext, DeleteRequested, PurgeWaiting, AwaitRepoIdle, CheckRunning, WipeRows,
         DeleteReturns, DeleteRepeats, DeletionStep
<1>5. ASSUME NEW p \in Procs, HouseNext(p) \/ CleanupTimer(p) \/ Restart(p)
      PROVE  \A q \in Procs, w \in Workers : WorkerMoves(q, w)
  BY <1>1, <1>2, <1>5
     DEF HouseNext, ResetRunningJobs, CleanupAtStart, CleanupTimer, Restart
<1>6. ASSUME NEW p \in Procs, Crash(p)
      PROVE  \A q \in Procs, w \in Workers : WorkerMoves(q, w)
  <2>1. \A q \in Procs, w \in Workers :
          worker'[q][w] = IF q = p THEN Off ELSE worker[q][w]
    BY <1>6 DEF Crash, TypeOK
  <2>2. QED
    BY <2>1 DEF WorkerMoves, FreeSteps, Off, At
<1>7. ASSUME NEW j \in Jobs, RowAges(j)
      PROVE  UNCHANGED worker
  BY <1>7 DEF RowAges, memory
<1>8. CASE UNCHANGED vars
  BY <1>1, <1>8 DEF vars
<1>9. QED
  BY <1>1, <1>3, <1>4, <1>5, <1>6, <1>7, <1>8, MovesClaim, MovesProcess DEF Next

\* The worker that owns its row writes the outcome into it and moves on.
SettlesRow(p, w) ==
  /\ worker[p][w].pc \in OwnSteps /\ JobOf(p, w) \in Jobs
  /\ worker'[p][w].pc \in {"report", "requeued", "failed"}
  /\ \E s \in {"pending", "completed", "failed"} : jobs' = Settled(JobOf(p, w), s)

\* What one step does to the job rows when nothing disturbs their owners.
JobsMove ==
  \/ UNCHANGED jobs
  \/ \E j \in Jobs : InsertJob(j)
  \/ \E p \in Procs, w \in Workers :
       JobOf(p, w) \in Jobs /\ Claimable(JobOf(p, w)) /\ TakeRow(p, w, JobOf(p, w))
  \/ \E p \in Procs, w \in Workers : SettlesRow(p, w)
  \/ \E p \in Procs : ResetRunningJobs(p)
  \/ \E S \in SUBSET Jobs : /\ \A j \in S : jobs[j].status \in {"completed", "failed"}
                            /\ DeleteJobs(S)
  \/ \E j \in Jobs : RowAges(j) /\ ~ Held(j)

LEMMA JobsMoveProcess ==
  ASSUME NEW p \in Procs, NEW w \in Workers, TypeOK, Undisturbed, Process(p, w)
  PROVE  JobsMove
<1>1. CASE MarkCompleted(p, w) \/ MarkPendingForRetry(p, w) \/ MarkFailed(p, w)
  <2>1. /\ worker[p][w].pc \in {"run", "requeue", "fail"}
        /\ \E step \in {"report", "requeued", "failed"} : Goto(p, w, step)
        /\ \E s \in {"pending", "completed", "failed"} : jobs' = Settled(JobOf(p, w), s)
    BY <1>1 DEF MarkCompleted, MarkPendingForRetry, MarkFailed, InTry, WorkStep
  <2>2. JobOf(p, w) \in Jobs
    BY <2>1, BusyHasJob DEF BusySteps
  <2>3. worker'[p][w].pc \in {"report", "requeued", "failed"}
    BY <2>1, MovesGoto
  <2>4. SettlesRow(p, w)
    BY <2>1, <2>2, <2>3 DEF SettlesRow, OwnSteps
  <2>5. QED
    BY <2>4 DEF JobsMove
<1>2. CASE \/ StartJob(p, w) \/ ReportCompleted(p, w) \/ JobThrows(p, w)
           \/ ReportRetry(p, w) \/ ReportFailed(p, w) \/ WorkerEnds(p, w)
  BY <1>2 DEF StartJob, ReportCompleted, JobThrows, ReportRetry, ReportFailed, WorkerEnds,
              JobsMove, tables
<1>3. ~ (StartJobThrows(p, w) \/ MarkCompletedThrows(p, w) \/ ReportCompletedThrows(p, w))
  BY DEF Undisturbed, StartJobThrows, MarkCompletedThrows, ReportCompletedThrows
<1>4. QED
  BY <1>1, <1>2, <1>3 DEF Process

LEMMA JobsMoves ==
  ASSUME TypeOK, OwnInv, Undisturbed, [Next]_vars
  PROVE  JobsMove
<1>1. CASE UNCHANGED jobs
  BY <1>1 DEF JobsMove
<1>2. ASSUME NEW p \in Procs, NEW j \in Jobs,
             Enqueue(p, j) \/ EnqueueThrows(p, j) \/ EnqueueDrains(p, j)
      PROVE  JobsMove
  BY <1>2 DEF Enqueue, EnqueueThrows, EnqueueDrains, JobsMove, tables
<1>3. ASSUME NEW p \in Procs, NEW w \in Workers, ClaimNext(p, w)
      PROVE  JobsMove
  <2>1. \/ UNCHANGED jobs
        \/ /\ worker[p][w].pc = "mark"
           /\ Claimable(JobOf(p, w)) /\ TakeRow(p, w, JobOf(p, w))
    BY <1>3 DEF ClaimNext, SelectJob, SelectNextPage, SelectNone, ClaimStep, MarkRunning,
                MarkRunningAgain, MarkRefused, MarkStep, Adopt, tables
  <2>2. worker[p][w].pc = "mark" => JobOf(p, w) \in Jobs
    BY BusyHasJob DEF BusySteps
  <2>3. QED
    BY <2>1, <2>2 DEF JobsMove
<1>4. ASSUME NEW p \in Procs, DeleteNext(p) \/ \E r \in Repos : DeleteRequested(p, r)
      PROVE  FALSE
  <2>1. deletion[p].pc = "idle" /\ Deletable = {}
    BY DEF OwnInv, Undisturbed
  <2>2. QED
    BY <1>4, <2>1
       DEF DeleteNext, DeleteRequested, PurgeWaiting, AwaitRepoIdle, CheckRunning, WipeRows,
           DeleteReturns, DeleteRepeats, DeletionStep
<1>5. ASSUME NEW p \in Procs, CleanupAtStart(p) \/ CleanupTimer(p)
      PROVE  JobsMove
  <2>1. CleanupExpiredState
    BY <1>5 DEF CleanupAtStart, CleanupTimer
  <2>2. PICK S \in Expired({j \in Jobs : jobs[j].status \in {"completed", "failed"}}) :
          DeleteJobs(S)
    BY <2>1 DEF CleanupExpiredState
  <2>3. S \in SUBSET {j \in Jobs : jobs[j].status \in {"completed", "failed"}}
    BY <2>2 DEF Expired
  <2>4. S \in SUBSET Jobs /\ \A j \in S : jobs[j].status \in {"completed", "failed"}
    BY <2>3
  <2>5. QED
    BY <2>2, <2>4 DEF JobsMove
<1>6. ASSUME NEW p \in Procs, ResetRunningJobs(p) \/ Crash(p) \/ Restart(p)
      PROVE  JobsMove
  BY <1>6 DEF Crash, Restart, JobsMove, tables
<1>7. ASSUME NEW j \in Jobs, RowAges(j)
      PROVE  JobsMove
  BY <1>7 DEF RowAges, Undisturbed, JobsMove
<1>8. CASE UNCHANGED vars
  BY <1>1, <1>8 DEF vars
<1>9. QED
  BY <1>2, <1>3, <1>4, <1>5, <1>6, <1>7, <1>8, JobsMoveProcess DEF Next, HouseNext

\* A row keeps its owner until the owner settles it.
LEMMA OwnerKept ==
  ASSUME TypeOK, OwnInv, JobsMove, NEW p \in Procs, NEW w \in Workers, NEW j \in Jobs,
         OwnsRow(p, w, j), JobOf(p, w) = j
  PROVE  OwnsRow(p, w, j)' \/ worker'[p][w].pc \in {"report", "requeued", "failed"}
<1> USE DEF OwnsRow, TypeOK
<1>1. CASE UNCHANGED jobs
  BY <1>1
<1>2. CASE \E k \in Jobs : InsertJob(k)
  BY <1>2 DEF InsertJob
<1>3. ASSUME NEW q \in Procs, NEW v \in Workers, JobOf(q, v) \in Jobs,
             Claimable(JobOf(q, v)), TakeRow(q, v, JobOf(q, v))
      PROVE  OwnsRow(p, w, j)'
  <2>1. JobOf(q, v) # j
    BY <1>3 DEF Claimable
  <2>2. jobs'[j] = jobs[j]
    BY <1>3, <2>1 DEF TakeRow
  <2>3. QED
    BY <2>2
<1>4. ASSUME NEW q \in Procs, NEW v \in Workers, SettlesRow(q, v)
      PROVE  OwnsRow(p, w, j)' \/ worker'[p][w].pc \in {"report", "requeued", "failed"}
  <2>1. OwnsRow(q, v, JobOf(q, v))
    BY <1>4 DEF SettlesRow, OwnInv
  <2>2. CASE JobOf(q, v) = j
    BY <1>4, <2>1, <2>2 DEF SettlesRow
  <2>3. CASE JobOf(q, v) # j
    <3>1. jobs'[j] = jobs[j]
      BY <1>4, <2>3 DEF SettlesRow, Settled
    <3>2. QED
      BY <3>1
  <2>4. QED
    BY <2>2, <2>3
<1>5. CASE \E q \in Procs : ResetRunningJobs(q)
  BY <1>5 DEF ResetRunningJobs
<1>6. CASE \E S \in SUBSET Jobs : /\ \A k \in S : jobs[k].status \in {"completed", "failed"}
                                  /\ DeleteJobs(S)
  BY <1>6 DEF DeleteJobs
<1>7. CASE \E k \in Jobs : RowAges(k) /\ ~ Held(k)
  BY <1>7 DEF RowAges, Held
<1>8. QED
  BY <1>1, <1>2, <1>3, <1>4, <1>5, <1>6, <1>7 DEF JobsMove

\* A row that a worker has just claimed does not age before it adopts it.
LEMMA ClaimKept ==
  ASSUME TypeOK, JobsMove, NEW p \in Procs, NEW w \in Workers, NEW j \in Jobs,
         JobOf(p, w) = j,
         jobs[j].status = "running" /\ jobs[j].claim = <<p, w>> => ~ jobs[j].old
  PROVE  jobs'[j].status = "running" /\ jobs'[j].claim = <<p, w>> => ~ jobs'[j].old
<1>0. jobs \in [Jobs -> Row] /\ jobs[j] \in Row
  BY DEF TypeOK
<1>1. CASE UNCHANGED jobs
  BY <1>1
<1>2. CASE \E k \in Jobs : InsertJob(k)
  BY <1>0, <1>2 DEF InsertJob, NewRow, NoRow
<1>3. ASSUME NEW q \in Procs, NEW v \in Workers, TakeRow(q, v, JobOf(q, v))
      PROVE  ~ jobs'[j].old \/ jobs'[j] = jobs[j]
  BY <1>0, <1>3 DEF TakeRow, Row
<1>4. ASSUME NEW q \in Procs, NEW v \in Workers, SettlesRow(q, v)
      PROVE  ~ jobs'[j].old \/ jobs'[j] = jobs[j]
  BY <1>0, <1>4 DEF SettlesRow, Settled, Row
<1>5. CASE \E q \in Procs : ResetRunningJobs(q)
  <2>1. jobs'[j] = IF jobs[j].status = "running" /\ jobs[j].old
                   THEN [jobs[j] EXCEPT !.status = "pending", !.claim = None, !.old = FALSE]
                   ELSE jobs[j]
    BY <1>5 DEF ResetRunningJobs
  <2>2. CASE jobs[j].status = "running" /\ jobs[j].old
    BY <1>0, <2>1, <2>2 DEF Row
  <2>3. CASE ~ (jobs[j].status = "running" /\ jobs[j].old)
    BY <2>1, <2>3
  <2>4. QED
    BY <2>2, <2>3
<1>6. CASE \E S \in SUBSET Jobs : DeleteJobs(S)
  BY <1>0, <1>6 DEF DeleteJobs, NoRow
<1>7. CASE \E k \in Jobs : RowAges(k) /\ ~ Held(k)
  BY <1>0, <1>7 DEF RowAges, Held, Row
<1>8. QED
  BY <1>1, <1>2, <1>3, <1>4, <1>5, <1>6, <1>7 DEF JobsMove

LEMMA DeletionIdle ==
  ASSUME TypeOK, Deletable = {}, \A p \in Procs : deletion[p].pc = "idle", [Next]_vars
  PROVE  \A p \in Procs : deletion'[p].pc = "idle"
<1>1. (\A p \in Procs : deletion[p].pc = "idle") /\ Deletable = {}
  OBVIOUS
<1>2. CASE UNCHANGED deletion
  BY <1>1, <1>2
<1>3. ASSUME NEW p \in Procs, DeleteNext(p) \/ \E r \in Repos : DeleteRequested(p, r)
      PROVE  FALSE
  BY <1>1, <1>3
     DEF DeleteNext, DeleteRequested, PurgeWaiting, AwaitRepoIdle, CheckRunning, WipeRows,
         DeleteReturns, DeleteRepeats, DeletionStep
<1>4. ASSUME NEW p \in Procs, NEW w \in Workers, Process(p, w)
      PROVE  UNCHANGED deletion
  BY <1>1, <1>4
     DEF Process, StartJob, MarkCompleted, ReportCompleted, StartJobThrows, JobThrows,
         MarkCompletedThrows, ReportCompletedThrows, MarkPendingForRetry, ReportRetry,
         MarkFailed, ReportFailed, WorkerEnds, InTry, Release
<1>5. ASSUME NEW p \in Procs, NEW w \in Workers, ClaimNext(p, w)
      PROVE  UNCHANGED deletion
  BY <1>5 DEF ClaimNext, SelectJob, SelectNextPage, SelectNone, ClaimStep, MarkRunning,
              MarkRunningAgain, MarkRefused, MarkStep, Adopt
<1>6. ASSUME NEW p \in Procs, NEW j \in Jobs,
             Enqueue(p, j) \/ EnqueueThrows(p, j) \/ EnqueueDrains(p, j)
      PROVE  UNCHANGED deletion
  BY <1>6 DEF Enqueue, EnqueueThrows, EnqueueDrains, memory
<1>7. ASSUME NEW p \in Procs, HouseNext(p) \/ CleanupTimer(p) \/ Restart(p)
      PROVE  UNCHANGED deletion
  BY <1>7 DEF HouseNext, ResetRunningJobs, CleanupAtStart, CleanupTimer, Restart, HouseStep
<1>8. ASSUME NEW p \in Procs, Crash(p)
      PROVE  \A q \in Procs : deletion'[q].pc = "idle"
  BY <1>1, <1>8 DEF Crash, TypeOK, NoDeletion
<1>9. ASSUME NEW j \in Jobs, RowAges(j)
      PROVE  UNCHANGED deletion
  BY <1>9 DEF RowAges, memory
<1>10. CASE UNCHANGED vars
  BY <1>2, <1>10 DEF vars
<1>11. QED
  BY <1>2, <1>3, <1>4, <1>5, <1>6, <1>7, <1>8, <1>9, <1>10 DEF Next

LEMMA OwnNext == TypeOK /\ OwnInv /\ Undisturbed /\ [Next]_vars => OwnInv'
<1> SUFFICES ASSUME TypeOK, OwnInv, Undisturbed, [Next]_vars
             PROVE  OwnInv'
  OBVIOUS
<1>1. JobsMove
  BY JobsMoves
<1>2. ASSUME NEW p \in Procs, NEW w \in Workers
      PROVE  /\ worker'[p][w].pc \in OwnSteps => OwnsRow(p, w, JobOf(p, w))'
             /\ worker'[p][w].pc = "mark" /\ ClaimVerified(p, w)' => ~ jobs'[JobOf(p, w)'].old
  <2> PICK j : j = JobOf(p, w)
    OBVIOUS
  <2>1. /\ worker[p][w].pc \in OwnSteps => j \in Jobs /\ OwnsRow(p, w, j)
        /\ worker[p][w].pc = "mark" => j \in Jobs
        /\ worker[p][w].pc = "mark" /\ ClaimVerified(p, w) => ~ jobs[j].old
    BY BusyHasJob DEF OwnInv, OwnSteps, BusySteps
  <2>2. CASE worker'[p][w] = worker[p][w]
    <3>1. JobOf(p, w)' = j /\ worker'[p][w].pc = worker[p][w].pc
      BY <2>2 DEF JobOf
    <3>2. CASE worker[p][w].pc \in OwnSteps
      <4>1. OwnsRow(p, w, j)' \/ worker'[p][w].pc \in {"report", "requeued", "failed"}
        BY <1>1, <2>1, <3>2, OwnerKept
      <4>2. QED
        BY <3>1, <3>2, <4>1 DEF OwnSteps, OwnsRow
    <3>3. CASE worker[p][w].pc = "mark"
      <4>1. jobs'[j].status = "running" /\ jobs'[j].claim = <<p, w>> => ~ jobs'[j].old
        BY <1>1, <2>1, <3>3, ClaimKept DEF ClaimVerified
      <4>2. QED
        BY <3>1, <3>3, <4>1 DEF OwnSteps, ClaimVerified
    <3>4. QED
      BY <3>1, <3>2, <3>3
  <2>3. CASE worker'[p][w].pc \in FreeSteps \cup {"report", "requeued", "failed"}
    BY <2>3 DEF OwnSteps, FreeSteps
  <2>4. CASE /\ worker[p][w].pc \in OwnSteps /\ worker'[p][w].pc \in OwnSteps
             /\ worker'[p][w].job = worker[p][w].job
    <3>1. OwnsRow(p, w, j)' \/ worker'[p][w].pc \in {"report", "requeued", "failed"}
      BY <1>1, <2>1, <2>4, OwnerKept
    <3>2. QED
      BY <2>4, <3>1 DEF OwnSteps, OwnsRow, JobOf
  <2>5. CASE MarkRunning(p, w) /\ worker'[p][w].pc = "adopt" /\ worker'[p][w].job = worker[p][w].job
    <3>1. JobOf(p, w)' = j /\ worker[p][w].pc = "mark"
      BY <2>5 DEF JobOf, MarkRunning, MarkStep
    <3>2. CASE TakeRow(p, w, j)
      BY <2>1, <2>5, <3>1, <3>2 DEF TakeRow, TypeOK, OwnsRow
    <3>3. CASE ClaimVerified(p, w) /\ UNCHANGED jobs
      BY <2>1, <2>5, <3>1, <3>3 DEF ClaimVerified, OwnsRow
    <3>4. QED
      BY <2>5, <3>2, <3>3 DEF MarkRunning
  <2>6. CASE /\ worker'[p][w].pc = "mark" /\ UNCHANGED jobs
             /\ jobs[worker'[p][w].job].status = "pending"
    BY <2>6 DEF OwnSteps, ClaimVerified, JobOf
  <2>7. QED
    BY <2>2, <2>3, <2>4, <2>5, <2>6, Moves DEF WorkerMoves
<1>3. \A p \in Procs : deletion'[p].pc = "idle"
  BY DeletionIdle DEF OwnInv, Undisturbed
<1>4. QED
  BY <1>2, <1>3 DEF OwnInv

\* "Jobs for the same installation/repository stay serialized", across all the
\* processes and whatever crashes, as long as no job outlives its timeout, no
\* owner deletes a repository and no write of a finished job fails.
THEOREM Serialized == ASSUME Undisturbed PROVE Spec => []RepoSerialized
<1>1. Init => OwnInv
  BY DEF Init, OwnInv, NoDeletion, OwnSteps, Off, At
<1>2. TypeOK /\ OwnInv /\ OneRunningRow => RepoSerialized
  <2> SUFFICES ASSUME TypeOK, OwnInv, OneRunningRow,
                      NEW p \in Procs, NEW q \in Procs, NEW v \in Workers, NEW w \in Workers,
                      Executing(p, v), Executing(q, w),
                      RepoOf[JobOf(p, v)] = RepoOf[JobOf(q, w)]
               PROVE  p = q /\ v = w
    BY DEF RepoSerialized
  <2>1. /\ JobOf(p, v) \in Jobs /\ OwnsRow(p, v, JobOf(p, v))
        /\ JobOf(q, w) \in Jobs /\ OwnsRow(q, w, JobOf(q, w))
    BY BusyHasJob DEF Executing, OwnInv, OwnSteps, BusySteps
  <2>2. JobOf(p, v) = JobOf(q, w)
    BY <2>1 DEF OneRunningRow, OwnsRow
  <2>3. <<p, v>> = <<q, w>>
    BY <2>1, <2>2 DEF OwnsRow
  <2>4. QED
    BY <2>3
<1>3. QED
  BY <1>1, <1>2, OwnNext, OneRunning, TypeCorrect, PTL DEF Spec

-----------------------------------------------------------------------------
(* A single process counts its attempts and keeps the progress rows true.    *)

\* One process, which stays up and whose jobs end before runningJobTimeoutMs.
OneProcess ==
  /\ \A p, q \in Procs : p = q
  /\ MaxCrashes = 0
  /\ "overrun" \notin Events

\* What the worker read when it selected its job, against the row of that job.
\* Until the claim commits, the row has the attempts that were read; after
\* it, one more, unless the row was deleted and enqueued again meanwhile.
CountAt(p, w) ==
  LET row  == jobs[JobOf(p, w)]
      seen == worker[p][w].seen
      pc   == worker[p][w].pc
  IN  pc \in BusySteps =>
        /\ seen < MaxAttempts
        /\ row.attempts <= seen + 1
        /\ pc \in {"requeue", "requeued"} => seen + 1 < MaxAttempts
        /\ pc \in {"report", "requeued", "failed"} => row.status # "running"
        /\ pc = "mark" =>
             /\ row.status \in {"absent", "pending", "running"}
             /\ row.status = "pending" => row.attempts <= seen
             /\ row.status = "running" => row.claim = <<p, w>>

\* A row that may be claimed has an attempt left, and a running row has a
\* worker, so it does not grow old and is not reset.
RowCounted(j) ==
  /\ jobs[j].attempts <= MaxAttempts
  /\ jobs[j].status = "pending" => jobs[j].attempts < MaxAttempts
  /\ jobs[j].status = "running" => Held(j)
  /\ ~ jobs[j].old

\* Why AttemptsBounded is preserved.
CountInv ==
  /\ \A p \in Procs, w \in Workers : CountAt(p, w)
  /\ \A j \in Jobs : RowCounted(j)

\* The claim lock and the repository locks give a job to one worker.
LEMMA OneHolder ==
  ASSUME TypeOK, LockInv, NEW p \in Procs, NEW v \in Workers, NEW w \in Workers,
         JobOf(p, v) \in Jobs, JobOf(p, v) = JobOf(p, w)
  PROVE  v = w
<1>1. \A u \in {v, w} : LocksRepo(p, u) \/ worker[p][u].pc \in {"mark", "adopt"}
  <2>1. \A u \in {v, w} : worker[p][u].pc \in BusySteps
    BY BusyHasJob, NoneIsNoJob
  <2>2. QED
    BY <2>1 DEF BusySteps, LocksRepo
<1>2. \A u \in {v, w} : worker[p][u].pc \in {"mark", "adopt"} =>
        claimLock[p] = u /\ RepoOf[JobOf(p, u)] \notin runningRepoKeys[p]
  BY DEF LockInv
<1>3. \A u \in {v, w} : LocksRepo(p, u) => RepoOf[JobOf(p, u)] \in runningRepoKeys[p]
  BY RepoOfType DEF LockInv
<1>4. LocksRepo(p, v) /\ LocksRepo(p, w) => v = w
  BY DEF LockInv
<1>5. QED
  BY <1>1, <1>2, <1>3, <1>4

LEMMA SettledIs ==
  ASSUME TypeOK, NEW j \in Jobs, NEW s \in JobStatus
  PROVE  /\ \A k \in Jobs : k # j => Settled(j, s)[k] = jobs[k]
         /\ Settled(j, s)[j].attempts = jobs[j].attempts
         /\ Settled(j, s)[j].old => jobs[j].old
         /\ Settled(j, s)[j].status = IF jobs[j].status = "absent" THEN "absent" ELSE s
<1>1. jobs \in [Jobs -> Row] /\ jobs[j] \in Row
  BY DEF TypeOK
<1>2. QED
  BY <1>1 DEF Settled, Row

LEMMA GotoIs ==
  ASSUME TypeOK, NEW p \in Procs, NEW w \in Workers, NEW step, Goto(p, w, step)
  PROVE  /\ \A q \in Procs, v \in Workers :
              ~ (q = p /\ v = w) => worker'[q][v] = worker[q][v]
         /\ worker'[p][w].pc = step
         /\ worker'[p][w].job = worker[p][w].job
         /\ worker'[p][w].seen = worker[p][w].seen
<1>1. worker'[p][w].seen = worker[p][w].seen
  BY WorkerAt DEF Goto, TypeOK, WorkerState, FreeWorker, BusyWorker
<1>2. QED
  BY <1>1, MovesGoto

\* Steps that leave the busy workers alone and make no row run.
Idles(p, w) ==
  \/ worker'[p][w] = worker[p][w]
  \/ worker[p][w].pc \in FreeSteps /\ worker'[p][w].pc \in FreeSteps

LEMMA IdlesDrain ==
  ASSUME TypeOK, NEW p \in Procs, NEW ws \in [Workers -> WorkerState], Drain(p, ws),
         \A w \in Workers : ws[w] = worker[p][w] \/ (ws[w].pc = "off" /\ worker[p][w].pc = "done")
  PROVE  \A q \in Procs, w \in Workers : Idles(q, w)
<1> SUFFICES ASSUME NEW q \in Procs, NEW w \in Workers
             PROVE  Idles(q, w)
  OBVIOUS
<1>1. CASE q # p
  BY <1>1 DEF Drain, TypeOK, Idles
<1>2. CASE q = p
  <2>1. worker'[p][w] = ws[w] \/ (ws[w].pc = "off" /\ worker'[p][w] = Claiming)
    BY DEF Drain, TypeOK
  <2>2. QED
    BY <1>2, <2>1 DEF Idles, FreeSteps, Claiming, At
<1>3. QED
  BY <1>1, <1>2

\* A scan that finds nothing to claim leaves the worker without a job.
LEMMA SelectIdles ==
  ASSUME TypeOK, NEW p \in Procs, NEW w \in Workers, SelectNextPage(p, w) \/ SelectNone(p, w)
  PROVE  \A q \in Procs, v \in Workers : Idles(q, v)
<1>1. worker[p][w].pc \in FreeSteps
  BY DEF SelectNextPage, SelectNone, ClaimStep, FreeSteps
<1>2. \A q \in Procs, v \in Workers : ~ (q = p /\ v = w) => worker'[q][v] = worker[q][v]
  BY DEF SelectNextPage, SelectNone, TypeOK
<1>3. worker'[p][w].pc \in FreeSteps
  <2>1. CASE SelectNextPage(p, w)
    BY <1>1, <2>1, WorkerAt DEF SelectNextPage, TypeOK, FreeSteps, WorkerState, FreeWorker,
                                BusyWorker
  <2>2. CASE SelectNone(p, w)
    BY <2>2 DEF SelectNone, TypeOK, FreeSteps, Done, At
  <2>3. QED
    BY <2>1, <2>2
<1>4. QED
  BY <1>1, <1>2, <1>3 DEF Idles

\* So does the end of a drain worker, and what drain() starts in its place.
LEMMA EndIdles ==
  ASSUME TypeOK, NEW p \in Procs, NEW w \in Workers, WorkerEnds(p, w)
  PROVE  \A q \in Procs, v \in Workers : Idles(q, v)
<1> DEFINE ws == [worker[p] EXCEPT ![w] = Off]
<1>1. ws \in [Workers -> WorkerState] /\ worker[p][w].pc = "done"
  BY AtType DEF TypeOK, WorkerEnds
<1>2. \A v \in Workers : ws[v] = IF v = w THEN Off ELSE worker[p][v]
  BY DEF TypeOK
<1>3. CASE Drain(p, ws)
  <2>1. \A v \in Workers : ws[v] = worker[p][v] \/ (ws[v].pc = "off" /\ worker[p][v].pc = "done")
    BY <1>1, <1>2 DEF Off, At
  <2>2. QED
    BY <1>1, <1>3, <2>1, IdlesDrain
<1>4. CASE worker' = [worker EXCEPT ![p] = ws]
  <2>1. \A q \in Procs, v \in Workers :
          worker'[q][v] = IF q = p /\ v = w THEN Off ELSE worker[q][v]
    BY <1>2, <1>4 DEF TypeOK
  <2>2. QED
    BY <1>1, <2>1 DEF Idles, FreeSteps, Off, At
<1>5. QED
  BY <1>3, <1>4 DEF WorkerEnds

\* Idle workers hold what they held.
LEMMA IdlesHold ==
  ASSUME TypeOK, TypeOK', \A p \in Procs, w \in Workers : Idles(p, w), NEW j \in Jobs
  PROVE  Held(j)' <=> Held(j)
<1>1. \A p \in Procs, w \in Workers : JobOf(p, w)' = JobOf(p, w)
  <2> SUFFICES ASSUME NEW p \in Procs, NEW w \in Workers
               PROVE  JobOf(p, w)' = JobOf(p, w)
    OBVIOUS
  <2>1. worker[p][w].pc \in FreeSteps => JobOf(p, w) = None
    BY BusyHasJob
  <2>2. worker'[p][w].pc \in FreeSteps => worker'[p][w].job = None
    <3>1. worker'[p][w] \in WorkerState
      BY DEF TypeOK
    <3>2. QED
      BY <3>1 DEF WorkerState, FreeWorker, BusyWorker, FreeSteps, BusySteps
  <2>3. QED
    BY <2>1, <2>2 DEF Idles, JobOf
<1>2. QED
  BY <1>1 DEF Held

LEMMA CountFrame ==
  ASSUME TypeOK, TypeOK', CountInv, \A p \in Procs, w \in Workers : Idles(p, w),
         \A j \in Jobs : \/ jobs'[j] = jobs[j] \/ jobs'[j] = NoRow
                         \/ jobs[j].status = "absent" /\ jobs'[j] = NewRow
  PROVE  CountInv'
<1>1. ASSUME NEW p \in Procs, NEW w \in Workers
      PROVE  CountAt(p, w)'
  <2>1. CASE worker'[p][w].pc \notin BusySteps
    BY <2>1 DEF CountAt
  <2>2. CASE worker'[p][w].pc \in BusySteps
    <3>1. worker'[p][w] = worker[p][w]
      BY <2>2 DEF Idles, FreeSteps, BusySteps
    <3> PICK j : j = JobOf(p, w)
      OBVIOUS
    <3>2. JobOf(p, w)' = j /\ worker[p][w].pc \in BusySteps
      BY <2>2, <3>1 DEF JobOf
    <3>3. j \in Jobs /\ worker[p][w].seen \in Nat
      BY <3>2, BusyHasJob DEF BusyWorker
    <3>4. CountAt(p, w)
      BY DEF CountInv
    <3>5. \/ jobs'[j] = jobs[j] \/ jobs'[j] = NoRow
          \/ jobs[j].status = "absent" /\ jobs'[j] = NewRow
      BY <3>3
    <3>6. CASE jobs'[j] = jobs[j]
      BY <3>1, <3>2, <3>4, <3>6 DEF CountAt
    <3>7. CASE jobs'[j] = NoRow \/ jobs'[j] = NewRow
      <4>1. /\ jobs'[j].attempts = 0
            /\ jobs'[j].status = "absent" \/ jobs'[j].status = "pending"
        BY <3>7 DEF NewRow, NoRow
      <4>2. QED
        BY <3>1, <3>2, <3>3, <3>4, <4>1 DEF CountAt
    <3>8. QED
      BY <3>5, <3>6, <3>7
  <2>3. QED
    BY <2>1, <2>2
<1>2. ASSUME NEW j \in Jobs
      PROVE  RowCounted(j)'
  <2>1. RowCounted(j) /\ (Held(j)' <=> Held(j))
    BY IdlesHold DEF CountInv
  <2>2. CASE jobs'[j] = jobs[j]
    BY <2>1, <2>2 DEF RowCounted
  <2>3. CASE jobs'[j] = NoRow \/ jobs'[j] = NewRow
    BY <2>3, Constant DEF RowCounted, NewRow, NoRow
  <2>4. QED
    BY <2>2, <2>3
<1>3. QED
  BY <1>1, <1>2 DEF CountInv

\* A step of the one worker that holds job j, which touches no other row.
LEMMA CountStep ==
  ASSUME TypeOK, LockInv, CountInv, OneProcess,
         NEW p \in Procs, NEW w \in Workers, NEW j \in Jobs, JobOf(p, w) = j,
         \A v \in Workers : v # w => worker'[p][v] = worker[p][v],
         \A k \in Jobs : k # j => jobs'[k] = jobs[k],
         CountAt(p, w)', RowCounted(j)'
  PROVE  CountInv'
<1>1. \A q \in Procs : q = p
  BY DEF OneProcess
<1>2. ASSUME NEW v \in Workers, v # w
      PROVE  CountAt(p, v)'
  <2>1. worker'[p][v] = worker[p][v] /\ JobOf(p, v)' = JobOf(p, v) /\ CountAt(p, v)
    BY <1>2 DEF JobOf, CountInv
  <2>2. CASE worker[p][v].pc \in BusySteps
    <3>1. JobOf(p, v) \in Jobs /\ JobOf(p, v) # j
      BY <1>2, <2>2, BusyHasJob, OneHolder
    <3>2. jobs'[JobOf(p, v)] = jobs[JobOf(p, v)]
      BY <3>1
    <3>3. QED
      BY <2>1, <3>2 DEF CountAt
  <2>3. CASE worker[p][v].pc \notin BusySteps
    BY <2>1, <2>3 DEF CountAt
  <2>4. QED
    BY <2>2, <2>3
<1>3. ASSUME NEW k \in Jobs, k # j
      PROVE  RowCounted(k)'
  <2>1. jobs'[k] = jobs[k] /\ RowCounted(k)
    BY <1>3 DEF CountInv
  <2>2. ASSUME Held(k)
        PROVE  Held(k)'
    <3>1. PICK v \in Workers : JobOf(p, v) = k
      BY <1>1, <2>2 DEF Held
    <3>2. v # w
      BY <1>3, <3>1
    <3>3. JobOf(p, v)' = k
      BY <3>1, <3>2 DEF JobOf
    <3>4. QED
      BY <3>3 DEF Held
  <2>3. QED
    BY <2>1, <2>2 DEF RowCounted
<1>4. QED
  BY <1>1, <1>2, <1>3 DEF CountInv

\* The worker keeps its job and moves on, perhaps after it settled the row.
LEMMA CountGoto ==
  ASSUME TypeOK, LockInv, CountInv, OneProcess, NEW p \in Procs, NEW w \in Workers,
         worker[p][w].pc \in BusySteps, NEW step \in BusySteps \ {"mark"}, Goto(p, w, step),
         step \in {"requeue", "requeued"} => worker[p][w].seen + 1 < MaxAttempts,
         step \in {"report", "requeued", "failed"} => jobs'[JobOf(p, w)].status # "running",
         \/ UNCHANGED jobs
         \/ \E s \in {"pending", "completed", "failed"} :
              /\ jobs' = Settled(JobOf(p, w), s)
              /\ s = "pending" => worker[p][w].seen + 1 < MaxAttempts
  PROVE  CountInv'
<1> PICK j : j = JobOf(p, w)
  OBVIOUS
<1>1. j \in Jobs /\ worker[p][w].seen \in Nat /\ CountAt(p, w) /\ RowCounted(j)
  BY BusyHasJob DEF BusyWorker, CountInv
<1>2. /\ \A v \in Workers : v # w => worker'[p][v] = worker[p][v]
      /\ worker'[p][w].pc = step /\ JobOf(p, w)' = j
      /\ worker'[p][w].seen = worker[p][w].seen
  BY GotoIs DEF JobOf
<1>3. /\ \A k \in Jobs : k # j => jobs'[k] = jobs[k]
      /\ jobs'[j].attempts = jobs[j].attempts
      /\ jobs'[j].old => jobs[j].old
      /\ jobs'[j].status = "pending" =>
           jobs[j].status = "pending" \/ worker[p][w].seen + 1 < MaxAttempts
  BY <1>1, SettledIs DEF JobStatus
<1>4. jobs[j].attempts \in Nat
  BY <1>1 DEF TypeOK, Row
<1>5. CountAt(p, w)'
  BY <1>1, <1>2, <1>3 DEF CountAt
<1>6. RowCounted(j)'
  <2>1. Held(j)'
    BY <1>2 DEF Held
  <2>2. jobs[j].attempts <= worker[p][w].seen + 1
    BY <1>1 DEF CountAt
  <2>3. jobs'[j].status = "pending" => jobs'[j].attempts < MaxAttempts
    BY <1>1, <1>3, <1>4, <2>2, Constant DEF RowCounted
  <2>4. QED
    BY <1>1, <1>3, <2>1, <2>3 DEF RowCounted
<1>7. QED
  BY <1>1, <1>2, <1>3, <1>5, <1>6, CountStep

LEMMA CountClaim ==
  ASSUME TypeOK, TypeOK', LockInv, CountInv, OneProcess,
         NEW p \in Procs, NEW w \in Workers, ClaimNext(p, w)
  PROVE  CountInv'
<1>0. \A q \in Procs : q = p
  BY DEF OneProcess
<1>1. CASE SelectJob(p, w)
  <2>1. PICK j \in Jobs :
          /\ jobs[j].status = "pending"
          /\ worker' = [worker EXCEPT ![p][w] =
                          [pc |-> "mark", job |-> j, seen |-> jobs[j].attempts, offset |-> 0]]
    BY <1>1 DEF SelectJob, Unlocked, Page, Pending
  <2>2. \A v \in Workers : v # w => worker'[p][v] = worker[p][v]
    BY <2>1 DEF TypeOK
  <2>3. /\ worker'[p][w].pc = "mark" /\ worker'[p][w].job = j
        /\ worker'[p][w].seen = jobs[j].attempts
    BY <2>1 DEF TypeOK
  <2>4. UNCHANGED jobs /\ JobOf(p, w) = None
    BY <1>1, BusyHasJob DEF SelectJob, ClaimStep, tables, FreeSteps
  <2>5. jobs[j].attempts \in Nat /\ jobs[j].attempts < MaxAttempts
    BY <2>1 DEF CountInv, RowCounted, TypeOK, Row
  <2>6. CountAt(p, w)'
    BY <2>1, <2>3, <2>4, <2>5 DEF CountAt, JobOf
  <2>7. ASSUME NEW v \in Workers, v # w
        PROVE  CountAt(p, v)'
    BY <2>2, <2>4, <2>7 DEF CountInv, CountAt, JobOf
  <2>8. ASSUME NEW k \in Jobs
        PROVE  RowCounted(k)'
    <3>1. RowCounted(k) /\ jobs'[k] = jobs[k]
      BY <2>4 DEF CountInv
    <3>2. Held(k) => Held(k)'
      BY <1>0, <2>2, <2>4, NoneIsNoJob DEF Held, JobOf
    <3>3. QED
      BY <3>1, <3>2 DEF RowCounted
  <2>9. QED
    BY <1>0, <2>6, <2>7, <2>8 DEF CountInv
<1>2. CASE SelectNextPage(p, w) \/ SelectNone(p, w)
  <2>1. UNCHANGED jobs /\ worker[p][w].pc \in FreeSteps
    BY <1>2 DEF SelectNextPage, SelectNone, ClaimStep, tables, FreeSteps
  <2>2. \A q \in Procs, v \in Workers : Idles(q, v)
    BY <1>2, SelectIdles
  <2>3. QED
    BY <2>1, <2>2, CountFrame
<1>3. ASSUME worker[p][w].pc = "mark"
      PROVE  /\ JobOf(p, w) \in Jobs /\ worker[p][w].seen \in Nat
             /\ jobs[JobOf(p, w)] \in Row
             /\ worker[p][w].seen < MaxAttempts
             /\ jobs[JobOf(p, w)].status = "pending" =>
                  jobs[JobOf(p, w)].attempts <= worker[p][w].seen
             /\ jobs[JobOf(p, w)].status \in {"absent", "pending", "running"}
             /\ jobs[JobOf(p, w)].status = "running" => jobs[JobOf(p, w)].claim = <<p, w>>
  <2>1. worker[p][w] \in BusyWorker /\ JobOf(p, w) \in Jobs /\ CountAt(p, w)
    BY <1>3, BusyHasJob DEF BusySteps, CountInv
  <2>2. QED
    BY <1>3, <2>1 DEF BusyWorker, BusySteps, CountAt, TypeOK
<1>4. ASSUME worker[p][w].pc = "mark", Claimable(JobOf(p, w)), TakeRow(p, w, JobOf(p, w)),
             \/ UNCHANGED worker
             \/ Goto(p, w, "adopt")
      PROVE  CountInv'
  <2> PICK j : j = JobOf(p, w)
    OBVIOUS
  <2>1. /\ j \in Jobs /\ worker[p][w].seen \in Nat /\ jobs[j] \in Row
        /\ worker[p][w].seen < MaxAttempts /\ jobs[j].attempts <= worker[p][w].seen
    BY <1>3, <1>4 DEF Claimable
  <2>2. /\ \A k \in Jobs : k # j => jobs'[k] = jobs[k]
        /\ jobs'[j] = [status |-> "running", attempts |-> jobs[j].attempts + 1,
                       claim |-> <<p, w>>, old |-> FALSE]
    BY <1>4, <2>1 DEF TakeRow, TypeOK
  <2>3. /\ \A v \in Workers : v # w => worker'[p][v] = worker[p][v]
        /\ worker'[p][w].pc \in {"mark", "adopt"} /\ JobOf(p, w)' = j
        /\ worker'[p][w].seen = worker[p][w].seen
    <3>1. CASE UNCHANGED worker
      BY <1>4, <3>1 DEF JobOf
    <3>2. CASE Goto(p, w, "adopt")
      BY <3>2, GotoIs DEF JobOf
    <3>3. QED
      BY <1>4, <3>1, <3>2
  <2>4. jobs[j].attempts \in Nat /\ jobs[j].attempts + 1 <= MaxAttempts
    BY <2>1, Constant DEF Row
  <2>5. CountAt(p, w)'
    BY <2>1, <2>2, <2>3, <2>4 DEF CountAt
  <2>6. RowCounted(j)'
    BY <2>2, <2>3, <2>4 DEF RowCounted, Held
  <2>7. QED
    BY <2>1, <2>2, <2>3, <2>5, <2>6, CountStep
<1>5. CASE MarkRunning(p, w)
  <2>1. worker[p][w].pc = "mark" /\ Goto(p, w, "adopt")
    BY <1>5 DEF MarkRunning, MarkStep
  <2>2. CASE Claimable(JobOf(p, w)) /\ TakeRow(p, w, JobOf(p, w))
    BY <1>4, <2>1, <2>2
  <2>3. CASE UNCHANGED jobs
    BY <2>1, <2>3, CountGoto DEF BusySteps
  <2>4. QED
    BY <1>5, <2>2, <2>3 DEF MarkRunning
<1>6. CASE MarkRunningAgain(p, w)
  BY <1>4, <1>6 DEF MarkRunningAgain, MarkStep
<1>7. CASE MarkRefused(p, w)
  <2> PICK j : j = JobOf(p, w)
    OBVIOUS
  <2>1. UNCHANGED jobs /\ worker[p][w].pc = "mark" /\ j \in Jobs
    BY <1>3, <1>7 DEF MarkRefused, MarkStep
  <2>2. \A v \in Workers : v # w => worker'[p][v] = worker[p][v]
    BY <1>7 DEF MarkRefused, TypeOK
  <2>3. worker'[p][w].pc = "done"
    BY <1>7 DEF MarkRefused, TypeOK, Done, At
  <2>4. jobs[j].status # "running"
    BY <1>3, <1>7, <2>1 DEF MarkRefused, ClaimVerified
  <2>5. CountAt(p, w)'
    BY <2>3 DEF CountAt, BusySteps
  <2>6. RowCounted(j)'
    BY <2>1, <2>4 DEF CountInv, RowCounted
  <2>7. QED
    BY <2>1, <2>2, <2>5, <2>6, CountStep
<1>8. CASE Adopt(p, w)
  <2>1. worker[p][w].pc \in BusySteps /\ Goto(p, w, "start") /\ UNCHANGED jobs
    BY <1>8 DEF Adopt, BusySteps, tables
  <2>2. QED
    BY <2>1, CountGoto DEF BusySteps
<1>9. QED
  BY <1>1, <1>2, <1>5, <1>6, <1>7, <1>8 DEF ClaimNext

LEMMA CountProcess ==
  ASSUME TypeOK, TypeOK', LockInv, CountInv, OneProcess,
         NEW p \in Procs, NEW w \in Workers, Process(p, w)
  PROVE  CountInv'
<1>1. ASSUME worker[p][w].pc \in {"start", "run", "report", "requeue", "fail"}
      PROVE  /\ worker[p][w].pc \in BusySteps /\ JobOf(p, w) \in Jobs
             /\ worker[p][w].seen \in Nat /\ CountAt(p, w)
  BY <1>1, BusyHasJob DEF BusySteps, BusyWorker, CountInv
<1>2. CASE StartJob(p, w)
  <2>1. worker[p][w].pc = "start" /\ Goto(p, w, "run") /\ UNCHANGED jobs
    BY <1>2 DEF StartJob, InTry, WorkStep
  <2>2. QED
    BY <1>1, <2>1, CountGoto DEF BusySteps
<1>3. CASE \/ StartJobThrows(p, w) \/ JobThrows(p, w) \/ MarkCompletedThrows(p, w)
           \/ ReportCompletedThrows(p, w)
  <2>1. /\ worker[p][w].pc \in {"start", "run", "report"}
        /\ Caught(p, w)
        /\ UNCHANGED jobs \/ jobs' = Settled(JobOf(p, w), "completed")
    BY <1>3 DEF StartJobThrows, JobThrows, MarkCompletedThrows, ReportCompletedThrows, InTry,
                WorkStep
  <2>2. \E step \in {"requeue", "fail"} :
          /\ Goto(p, w, step)
          /\ step = "requeue" => worker[p][w].seen + 1 < MaxAttempts
    BY <2>1 DEF Caught
  <2>3. QED
    BY <1>1, <2>1, <2>2, CountGoto DEF BusySteps
<1>4. CASE MarkCompleted(p, w) \/ MarkPendingForRetry(p, w) \/ MarkFailed(p, w)
  <2>1. /\ worker[p][w].pc \in {"run", "requeue", "fail"}
        /\ \/ jobs' = Settled(JobOf(p, w), "completed") /\ Goto(p, w, "report")
           \/ /\ jobs' = Settled(JobOf(p, w), "pending") /\ Goto(p, w, "requeued")
              /\ worker[p][w].pc = "requeue"
           \/ jobs' = Settled(JobOf(p, w), "failed") /\ Goto(p, w, "failed")
    BY <1>4 DEF MarkCompleted, MarkPendingForRetry, MarkFailed, InTry, WorkStep
  <2>2. jobs'[JobOf(p, w)].status # "running"
    BY <1>1, <2>1, SettledIs DEF JobStatus
  <2>3. worker[p][w].pc = "requeue" => worker[p][w].seen + 1 < MaxAttempts
    BY <1>1 DEF CountAt
  <2>4. QED
    BY <1>1, <2>1, <2>2, <2>3, CountGoto DEF BusySteps
<1>5. CASE ReportCompleted(p, w) \/ ReportRetry(p, w) \/ ReportFailed(p, w)
  <2> PICK j : j = JobOf(p, w)
    OBVIOUS
  <2>1. /\ worker[p][w].pc \in {"report", "requeued", "failed"} /\ UNCHANGED jobs
        /\ worker' = [worker EXCEPT ![p][w] = Claiming]
    BY <1>5 DEF ReportCompleted, ReportRetry, ReportFailed, WorkStep, Release
  <2>2. /\ \A v \in Workers : v # w => worker'[p][v] = worker[p][v]
        /\ worker'[p][w] = Claiming
    BY <2>1 DEF TypeOK
  <2>3. j \in Jobs /\ CountAt(p, w) /\ RowCounted(j)
    BY <2>1, BusyHasJob DEF BusySteps, CountInv
  <2>4. jobs[j].status # "running"
    BY <2>1, <2>3 DEF CountAt, BusySteps
  <2>5. CountAt(p, w)'
    BY <2>2 DEF CountAt, Claiming, At, BusySteps
  <2>6. RowCounted(j)'
    BY <2>1, <2>3, <2>4 DEF RowCounted
  <2>7. QED
    BY <2>1, <2>2, <2>3, <2>5, <2>6, CountStep
<1>6. CASE WorkerEnds(p, w)
  BY <1>6, EndIdles, CountFrame DEF WorkerEnds, tables
<1>7. QED
  BY <1>2, <1>3, <1>4, <1>5, <1>6 DEF Process

\* The reset at start-up finds no row that is old.
LEMMA ResetKeeps ==
  ASSUME CountInv, NEW p \in Procs, ResetRunningJobs(p), NEW j \in Jobs
  PROVE  jobs'[j] = jobs[j]
<1>1. ~ jobs[j].old
  BY DEF CountInv, RowCounted
<1>2. jobs'[j] = IF jobs[j].status = "running" /\ jobs[j].old
                 THEN [jobs[j] EXCEPT !.status = "pending", !.claim = None, !.old = FALSE]
                 ELSE jobs[j]
  BY DEF ResetRunningJobs
<1>3. QED
  BY <1>1, <1>2

\* The other steps leave the busy workers alone, and the rows, or clear or make some.
LEMMA OthersIdle ==
  ASSUME TypeOK, CountInv, OneProcess, [Next]_vars,
         ~ \E p \in Procs, w \in Workers : ClaimNext(p, w) \/ Process(p, w)
  PROVE  /\ \A p \in Procs, w \in Workers : Idles(p, w)
         /\ \A j \in Jobs : \/ jobs'[j] = jobs[j] \/ jobs'[j] = NoRow
                            \/ jobs[j].status = "absent" /\ jobs'[j] = NewRow
<1>0. jobs \in [Jobs -> Row]
  BY DEF TypeOK
<1> DEFINE Still == \A q \in Procs, w \in Workers : Idles(q, w)
           Rows  == \A j \in Jobs : \/ jobs'[j] = jobs[j] \/ jobs'[j] = NoRow
                                    \/ jobs[j].status = "absent" /\ jobs'[j] = NewRow
<1>1. UNCHANGED worker => Still
  BY DEF Idles
<1>2. UNCHANGED jobs => Rows
  OBVIOUS
<1>3. ASSUME NEW p \in Procs, Drain(p, worker[p])
      PROVE  Still
  <2>1. worker[p] \in [Workers -> WorkerState]
    BY DEF TypeOK
  <2>2. QED
    BY <1>3, <2>1, IdlesDrain
<1>4. ASSUME NEW j \in Jobs, InsertJob(j)
      PROVE  Rows
  BY <1>0, <1>4 DEF InsertJob
<1>5. ASSUME NEW S, DeleteJobs(S)
      PROVE  Rows
  BY <1>5 DEF DeleteJobs
<1>6. ASSUME NEW p \in Procs, NEW j \in Jobs,
             Enqueue(p, j) \/ EnqueueThrows(p, j) \/ EnqueueDrains(p, j)
      PROVE  Still /\ Rows
  <2>1. Still
    BY <1>1, <1>3, <1>6 DEF Enqueue, EnqueueThrows, EnqueueDrains, memory
  <2>2. Rows
    BY <1>2, <1>4, <1>6 DEF Enqueue, EnqueueThrows, EnqueueDrains, tables
  <2>3. QED
    BY <2>1, <2>2
<1>7. ASSUME NEW p \in Procs, DeleteNext(p) \/ \E r \in Repos : DeleteRequested(p, r)
      PROVE  Still /\ Rows
  <2>1. Still
    BY <1>1, <1>7
       DEF DeleteNext, DeleteRequested, PurgeWaiting, AwaitRepoIdle, CheckRunning, WipeRows,
           DeleteReturns, DeleteRepeats, DeletionStep
  <2>2. UNCHANGED jobs \/ \E S : DeleteJobs(S)
    BY <1>7
       DEF DeleteNext, DeleteRequested, PurgeWaiting, AwaitRepoIdle, CheckRunning, WipeRows,
           DeleteReturns, DeleteRepeats, tables
  <2>3. QED
    BY <1>2, <1>5, <2>1, <2>2
<1>8. ASSUME NEW p \in Procs, ResetRunningJobs(p)
      PROVE  Still /\ Rows
  <2>1. UNCHANGED worker
    BY <1>8 DEF ResetRunningJobs
  <2>2. QED
    BY <1>1, <1>8, <2>1, ResetKeeps
<1>9. ASSUME NEW p \in Procs, CleanupAtStart(p) \/ CleanupTimer(p)
      PROVE  Still /\ Rows
  <2>1. CleanupExpiredState /\ (UNCHANGED worker \/ Drain(p, worker[p]))
    BY <1>9 DEF CleanupAtStart, CleanupTimer
  <2>2. QED
    BY <1>1, <1>3, <1>5, <2>1 DEF CleanupExpiredState
<1>10. ASSUME NEW p \in Procs, Crash(p)
       PROVE  FALSE
  <2>1. crashes \in 0 .. 0 /\ crashes < 0
    BY <1>10 DEF Crash, OneProcess, TypeOK
  <2>2. QED
    BY <2>1
<1>11. ASSUME NEW p \in Procs, Restart(p)
       PROVE  Still /\ Rows
  BY <1>1, <1>2, <1>11 DEF Restart, tables
<1>12. ASSUME NEW j \in Jobs, RowAges(j)
       PROVE  FALSE
  BY <1>12 DEF RowAges, OneProcess, CountInv, RowCounted
<1>13. CASE UNCHANGED vars
  BY <1>1, <1>2, <1>13 DEF vars
<1>14. QED
  BY <1>6, <1>7, <1>8, <1>9, <1>10, <1>11, <1>12, <1>13 DEF Next, HouseNext

LEMMA CountNext ==
  ASSUME OneProcess
  PROVE  TypeOK /\ TypeOK' /\ LockInv /\ CountInv /\ [Next]_vars => CountInv'
<1> SUFFICES ASSUME TypeOK, TypeOK', LockInv, CountInv, [Next]_vars
             PROVE  CountInv'
  OBVIOUS
<1>1. CASE \E p \in Procs, w \in Workers : ClaimNext(p, w) \/ Process(p, w)
  BY <1>1, CountClaim, CountProcess
<1>2. CASE ~ \E p \in Procs, w \in Workers : ClaimNext(p, w) \/ Process(p, w)
  BY <1>2, OthersIdle, CountFrame
<1>3. QED
  BY <1>1, <1>2

LEMMA CountInit == Init => CountInv
  BY Constant DEF Init, CountInv, CountAt, RowCounted, NoRow, Off, At, BusySteps

LEMMA LockInit == Init => LockInv
  BY DEF Init, LockInv, LocksRepo, Off, At

\* "Failed durable jobs are retried up to CODE_INDEXER_JOB_MAX_ATTEMPTS": no job
\* of a process that is alone on its tables and stays up is claimed more often,
\* whatever throws, whichever claim runs twice, and whatever is deleted or expires.
THEOREM AttemptsCounted == ASSUME OneProcess PROVE Spec => []AttemptsBounded
<1>1. CountInv => AttemptsBounded
  BY DEF CountInv, RowCounted, AttemptsBounded
<1>2. QED
  BY <1>1, CountInit, CountNext, LockInit, LockNext, TypeInit, TypeNext, PTL DEF Spec

\* No owner deletes a repository, and no row gets as old as retentionDays.
Kept == Deletable = {} /\ "expiry" \notin Events

\* A worker that has settled its row has yet to write the progress row; one
\* that has yet to claim its row has the progress row it will leave if refused.
AgreeAt(p, w) ==
  LET status == jobs[JobOf(p, w)].status
      pc     == worker[p][w].pc
  IN  pc \in BusySteps =>
        /\ status # "absent"
        /\ pc = "mark"     => progress[JobOf(p, w)] = "pending"
        /\ pc = "report"   => status = "completed"
        /\ pc = "requeued" => status = "pending"
        /\ pc = "failed"   => status = "failed"

\* The two tables have the same jobs, and agree about those that nobody holds.
RowAgrees(j) ==
  /\ jobs[j].status = "absent" <=> progress[j] = "absent"
  /\ ~ Held(j) => progress[j] = jobs[j].status

\* Why ProgressAgrees is preserved.
AgreeInv ==
  /\ \A p \in Procs : deletion[p].pc = "idle"
  /\ \A p \in Procs, w \in Workers : AgreeAt(p, w)
  /\ \A j \in Jobs : RowAgrees(j)

\* The part of AgreeInv that is about jobs.
RowsAgree ==
  /\ \A p \in Procs, w \in Workers : AgreeAt(p, w)
  /\ \A j \in Jobs : RowAgrees(j)

LEMMA AgreeFrame ==
  ASSUME TypeOK, TypeOK', RowsAgree, \A p \in Procs, w \in Workers : Idles(p, w),
         \A j \in Jobs : \/ jobs'[j] = jobs[j] /\ progress'[j] = progress[j]
                         \/ /\ jobs[j].status = "absent"
                            /\ jobs'[j].status = "pending" /\ progress'[j] = "pending"
  PROVE  RowsAgree'
<1>1. ASSUME NEW p \in Procs, NEW w \in Workers
      PROVE  AgreeAt(p, w)'
  <2>1. CASE worker'[p][w].pc \notin BusySteps
    BY <2>1 DEF AgreeAt
  <2>2. CASE worker'[p][w].pc \in BusySteps
    <3>1. worker'[p][w] = worker[p][w]
      BY <2>2 DEF Idles, FreeSteps, BusySteps
    <3> PICK j : j = JobOf(p, w)
      OBVIOUS
    <3>2. JobOf(p, w)' = j /\ worker[p][w].pc \in BusySteps
      BY <2>2, <3>1 DEF JobOf
    <3>3. j \in Jobs /\ AgreeAt(p, w)
      BY <3>2, BusyHasJob DEF RowsAgree
    <3>4. jobs[j].status # "absent"
      BY <3>2, <3>3 DEF AgreeAt
    <3>5. jobs'[j] = jobs[j] /\ progress'[j] = progress[j]
      BY <3>3, <3>4
    <3>6. QED
      BY <3>1, <3>2, <3>3, <3>5 DEF AgreeAt
  <2>3. QED
    BY <2>1, <2>2
<1>2. ASSUME NEW j \in Jobs
      PROVE  RowAgrees(j)'
  <2>1. RowAgrees(j) /\ (Held(j)' <=> Held(j))
    BY IdlesHold DEF RowsAgree
  <2>2. QED
    BY <2>1 DEF RowAgrees
<1>3. QED
  BY <1>1, <1>2 DEF RowsAgree

\* A step of the one worker that holds job j, which touches no other job.
LEMMA AgreeStep ==
  ASSUME TypeOK, LockInv, RowsAgree, OneProcess,
         NEW p \in Procs, NEW w \in Workers, NEW j \in Jobs, JobOf(p, w) = j,
         \A v \in Workers : v # w => worker'[p][v] = worker[p][v],
         \A k \in Jobs : k # j => jobs'[k] = jobs[k] /\ progress'[k] = progress[k],
         AgreeAt(p, w)', RowAgrees(j)'
  PROVE  RowsAgree'
<1>1. \A q \in Procs : q = p
  BY DEF OneProcess
<1>2. ASSUME NEW v \in Workers, v # w
      PROVE  AgreeAt(p, v)'
  <2>1. worker'[p][v] = worker[p][v] /\ JobOf(p, v)' = JobOf(p, v) /\ AgreeAt(p, v)
    BY <1>2 DEF JobOf, RowsAgree
  <2>2. CASE worker[p][v].pc \in BusySteps
    <3>1. JobOf(p, v) \in Jobs /\ JobOf(p, v) # j
      BY <1>2, <2>2, BusyHasJob, OneHolder
    <3>2. jobs'[JobOf(p, v)] = jobs[JobOf(p, v)] /\ progress'[JobOf(p, v)] = progress[JobOf(p, v)]
      BY <3>1
    <3>3. QED
      BY <2>1, <3>2 DEF AgreeAt
  <2>3. CASE worker[p][v].pc \notin BusySteps
    BY <2>1, <2>3 DEF AgreeAt
  <2>4. QED
    BY <2>2, <2>3
<1>3. ASSUME NEW k \in Jobs, k # j
      PROVE  RowAgrees(k)'
  <2>1. jobs'[k] = jobs[k] /\ progress'[k] = progress[k] /\ RowAgrees(k)
    BY <1>3 DEF RowsAgree
  <2>2. ASSUME Held(k)
        PROVE  Held(k)'
    <3>1. PICK v \in Workers : JobOf(p, v) = k
      BY <1>1, <2>2 DEF Held
    <3>2. v # w
      BY <1>3, <3>1
    <3>3. JobOf(p, v)' = k
      BY <3>1, <3>2 DEF JobOf
    <3>4. QED
      BY <3>3 DEF Held
  <2>3. QED
    BY <2>1, <2>2 DEF RowAgrees
<1>4. QED
  BY <1>1, <1>2, <1>3 DEF RowsAgree

\* The worker keeps its job and moves on, perhaps after it settled the row.
LEMMA AgreeGoto ==
  ASSUME TypeOK, LockInv, RowsAgree, OneProcess, NEW p \in Procs, NEW w \in Workers,
         worker[p][w].pc \in BusySteps, NEW step \in BusySteps \ {"mark"}, Goto(p, w, step),
         progress' = progress \/ progress' = ProgressSet(JobOf(p, w), "running"),
         \/ UNCHANGED jobs /\ step \notin {"report", "requeued", "failed"}
         \/ \E s \in {"pending", "completed", "failed"} :
              /\ jobs' = Settled(JobOf(p, w), s)
              /\ step = "report"   => s = "completed"
              /\ step = "requeued" => s = "pending"
              /\ step = "failed"   => s = "failed"
  PROVE  RowsAgree'
<1> PICK j : j = JobOf(p, w)
  OBVIOUS
<1>1. j \in Jobs /\ AgreeAt(p, w) /\ RowAgrees(j)
  BY BusyHasJob DEF RowsAgree
<1>2. /\ \A v \in Workers : v # w => worker'[p][v] = worker[p][v]
      /\ worker'[p][w].pc = step /\ JobOf(p, w)' = j
  BY GotoIs DEF JobOf
<1>3. jobs[j].status # "absent" /\ progress[j] # "absent"
  BY <1>1 DEF AgreeAt, RowAgrees
<1>4. /\ \A k \in Jobs : k # j => progress'[k] = progress[k]
      /\ progress'[j] # "absent"
  BY <1>1, <1>3 DEF ProgressSet, TypeOK
<1>5. /\ \A k \in Jobs : k # j => jobs'[k] = jobs[k]
      /\ jobs'[j].status # "absent"
      /\ step = "report"   => jobs'[j].status = "completed"
      /\ step = "requeued" => jobs'[j].status = "pending"
      /\ step = "failed"   => jobs'[j].status = "failed"
  BY <1>1, <1>3, SettledIs DEF JobStatus
<1>6. AgreeAt(p, w)'
  BY <1>2, <1>5 DEF AgreeAt
<1>7. RowAgrees(j)'
  <2>1. Held(j)'
    BY <1>2 DEF Held
  <2>2. QED
    BY <1>4, <1>5, <2>1 DEF RowAgrees
<1>8. QED
  BY <1>1, <1>2, <1>4, <1>5, <1>6, <1>7, AgreeStep

LEMMA AgreeClaim ==
  ASSUME TypeOK, TypeOK', LockInv, CountInv, RowsAgree, OneProcess,
         NEW p \in Procs, NEW w \in Workers, ClaimNext(p, w)
  PROVE  RowsAgree'
<1>0. \A q \in Procs : q = p
  BY DEF OneProcess
<1>1. CASE SelectJob(p, w)
  <2>1. PICK j \in Jobs :
          /\ jobs[j].status = "pending" /\ RepoOf[j] \notin runningRepoKeys[p]
          /\ worker' = [worker EXCEPT ![p][w] =
                          [pc |-> "mark", job |-> j, seen |-> jobs[j].attempts, offset |-> 0]]
    BY <1>1 DEF SelectJob, Unlocked, Page, Pending
  <2>2. \A v \in Workers : v # w => worker'[p][v] = worker[p][v]
    BY <2>1 DEF TypeOK
  <2>3. worker'[p][w].pc = "mark" /\ worker'[p][w].job = j
    BY <2>1 DEF TypeOK
  <2>4. UNCHANGED <<jobs, progress>> /\ JobOf(p, w) = None /\ claimLock[p] \in {None, w}
    BY <1>1, BusyHasJob DEF SelectJob, ClaimStep, OwnsClaimLock, tables, FreeSteps
  <2>5. ~ Held(j)
    <3>1. SUFFICES ASSUME NEW v \in Workers, JobOf(p, v) = j
                   PROVE  FALSE
      BY <1>0 DEF Held
    <3>2. v # w
      BY <2>4, <3>1, NoneIsNoJob
    <3>3. worker[p][v].pc \in BusySteps
      BY <3>1, BusyHasJob, NoneIsNoJob
    <3>4. worker[p][v].pc \notin {"mark", "adopt"}
      BY <2>4, <3>2, NoneIsNoJob DEF LockInv
    <3>5. LocksRepo(p, v)
      BY <3>3, <3>4 DEF BusySteps, LocksRepo
    <3>6. RepoOf[j] \in runningRepoKeys[p]
      BY <3>1, <3>5, RepoOfType DEF LockInv
    <3>7. QED
      BY <2>1, <3>6
  <2>6. progress[j] = "pending"
    BY <2>1, <2>5 DEF RowsAgree, RowAgrees
  <2>7. AgreeAt(p, w)'
    BY <2>1, <2>3, <2>4, <2>6 DEF AgreeAt, JobOf
  <2>8. ASSUME NEW v \in Workers, v # w
        PROVE  AgreeAt(p, v)'
    BY <2>2, <2>4, <2>8 DEF RowsAgree, AgreeAt, JobOf
  <2>9. ASSUME NEW k \in Jobs
        PROVE  RowAgrees(k)'
    <3>1. RowAgrees(k) /\ jobs'[k] = jobs[k] /\ progress'[k] = progress[k]
      BY <2>4 DEF RowsAgree
    <3>2. Held(k) => Held(k)'
      BY <1>0, <2>2, <2>4, NoneIsNoJob DEF Held, JobOf
    <3>3. QED
      BY <3>1, <3>2 DEF RowAgrees
  <2>10. QED
    BY <1>0, <2>7, <2>8, <2>9 DEF RowsAgree
<1>2. CASE SelectNextPage(p, w) \/ SelectNone(p, w)
  <2>1. UNCHANGED <<jobs, progress>> /\ worker[p][w].pc \in FreeSteps
    BY <1>2 DEF SelectNextPage, SelectNone, ClaimStep, tables, FreeSteps
  <2>2. \A q \in Procs, v \in Workers : Idles(q, v)
    BY <1>2, SelectIdles
  <2>3. QED
    BY <2>1, <2>2, AgreeFrame
<1>3. ASSUME worker[p][w].pc = "mark"
      PROVE  /\ JobOf(p, w) \in Jobs
             /\ AgreeAt(p, w) /\ RowAgrees(JobOf(p, w))
             /\ jobs[JobOf(p, w)].status \in {"pending", "running"}
             /\ progress[JobOf(p, w)] = "pending"
  <2>1. /\ worker[p][w].pc \in BusySteps /\ JobOf(p, w) \in Jobs
        /\ CountAt(p, w) /\ AgreeAt(p, w) /\ RowAgrees(JobOf(p, w))
    BY <1>3, BusyHasJob DEF BusySteps, CountInv, RowsAgree
  <2>2. QED
    BY <1>3, <2>1 DEF CountAt, AgreeAt
<1>4. ASSUME worker[p][w].pc = "mark", TakeRow(p, w, JobOf(p, w)), UNCHANGED progress,
             \/ UNCHANGED worker
             \/ Goto(p, w, "adopt")
      PROVE  RowsAgree'
  <2> PICK j : j = JobOf(p, w)
    OBVIOUS
  <2>1. j \in Jobs /\ progress[j] = "pending"
    BY <1>3, <1>4
  <2>2. /\ \A k \in Jobs : k # j => jobs'[k] = jobs[k] /\ progress'[k] = progress[k]
        /\ jobs'[j].status = "running" /\ progress'[j] = "pending"
    BY <1>4, <2>1 DEF TakeRow, TypeOK
  <2>3. /\ \A v \in Workers : v # w => worker'[p][v] = worker[p][v]
        /\ worker'[p][w].pc \in {"mark", "adopt"} /\ JobOf(p, w)' = j
    <3>1. CASE UNCHANGED worker
      BY <1>4, <3>1 DEF JobOf
    <3>2. CASE Goto(p, w, "adopt")
      BY <3>2, GotoIs DEF JobOf
    <3>3. QED
      BY <1>4, <3>1, <3>2
  <2>4. AgreeAt(p, w)'
    BY <2>2, <2>3 DEF AgreeAt
  <2>5. RowAgrees(j)'
    BY <2>2, <2>3 DEF RowAgrees, Held
  <2>6. QED
    BY <2>1, <2>2, <2>3, <2>4, <2>5, AgreeStep
<1>5. CASE MarkRunning(p, w)
  <2>1. worker[p][w].pc = "mark" /\ Goto(p, w, "adopt") /\ UNCHANGED progress
    BY <1>5 DEF MarkRunning, MarkStep
  <2>2. CASE TakeRow(p, w, JobOf(p, w))
    BY <1>4, <2>1, <2>2
  <2>3. CASE UNCHANGED jobs
    BY <2>1, <2>3, AgreeGoto DEF BusySteps
  <2>4. QED
    BY <1>5, <2>2, <2>3 DEF MarkRunning
<1>6. CASE MarkRunningAgain(p, w)
  BY <1>4, <1>6 DEF MarkRunningAgain, MarkStep
<1>7. CASE MarkRefused(p, w)
  <2> PICK j : j = JobOf(p, w)
    OBVIOUS
  <2>1. UNCHANGED <<jobs, progress>> /\ worker[p][w].pc = "mark" /\ j \in Jobs
    BY <1>3, <1>7 DEF MarkRefused, MarkStep
  <2>2. \A v \in Workers : v # w => worker'[p][v] = worker[p][v]
    BY <1>7 DEF MarkRefused, TypeOK
  <2>3. worker'[p][w].pc = "done"
    BY <1>7 DEF MarkRefused, TypeOK, Done, At
  <2>4. jobs[j].status # "running"
    <3>1. worker[p][w].pc \in BusySteps /\ CountAt(p, w)
      BY <2>1 DEF BusySteps, CountInv
    <3>2. jobs[j].status = "running" => jobs[j].claim = <<p, w>>
      BY <2>1, <3>1 DEF CountAt
    <3>3. QED
      BY <1>7, <3>2 DEF MarkRefused, ClaimVerified
  <2>5. jobs[j].status = progress[j]
    BY <1>3, <2>1, <2>4
  <2>6. AgreeAt(p, w)'
    BY <2>3 DEF AgreeAt, BusySteps
  <2>7. RowAgrees(j)'
    BY <2>1, <2>5 DEF RowAgrees
  <2>8. QED
    BY <2>1, <2>2, <2>6, <2>7, AgreeStep
<1>8. CASE Adopt(p, w)
  <2>1. worker[p][w].pc \in BusySteps /\ Goto(p, w, "start") /\ UNCHANGED <<jobs, progress>>
    BY <1>8 DEF Adopt, BusySteps, tables
  <2>2. QED
    BY <2>1, AgreeGoto DEF BusySteps
<1>9. QED
  BY <1>1, <1>2, <1>5, <1>6, <1>7, <1>8 DEF ClaimNext

LEMMA AgreeProcess ==
  ASSUME TypeOK, TypeOK', LockInv, RowsAgree, OneProcess,
         NEW p \in Procs, NEW w \in Workers, Process(p, w)
  PROVE  RowsAgree'
<1>1. CASE StartJob(p, w)
  <2>1. /\ worker[p][w].pc = "start" /\ Goto(p, w, "run") /\ UNCHANGED jobs
        /\ progress' = ProgressSet(JobOf(p, w), "running")
    BY <1>1 DEF StartJob, InTry, WorkStep
  <2>2. QED
    BY <2>1, AgreeGoto DEF BusySteps
<1>2. CASE \/ StartJobThrows(p, w) \/ JobThrows(p, w) \/ MarkCompletedThrows(p, w)
           \/ ReportCompletedThrows(p, w)
  <2>1. /\ worker[p][w].pc \in {"start", "run", "report"}
        /\ Caught(p, w) /\ UNCHANGED progress
        /\ UNCHANGED jobs \/ jobs' = Settled(JobOf(p, w), "completed")
    BY <1>2 DEF StartJobThrows, JobThrows, MarkCompletedThrows, ReportCompletedThrows, InTry,
                WorkStep
  <2>2. \E step \in {"requeue", "fail"} : Goto(p, w, step)
    BY <2>1 DEF Caught
  <2>3. QED
    BY <2>1, <2>2, AgreeGoto DEF BusySteps
<1>3. CASE MarkCompleted(p, w) \/ MarkPendingForRetry(p, w) \/ MarkFailed(p, w)
  <2>1. /\ worker[p][w].pc \in {"run", "requeue", "fail"} /\ UNCHANGED progress
        /\ \/ jobs' = Settled(JobOf(p, w), "completed") /\ Goto(p, w, "report")
           \/ jobs' = Settled(JobOf(p, w), "pending") /\ Goto(p, w, "requeued")
           \/ jobs' = Settled(JobOf(p, w), "failed") /\ Goto(p, w, "failed")
    BY <1>3 DEF MarkCompleted, MarkPendingForRetry, MarkFailed, InTry, WorkStep
  <2>2. QED
    BY <2>1, AgreeGoto DEF BusySteps
<1>4. CASE ReportCompleted(p, w) \/ ReportRetry(p, w) \/ ReportFailed(p, w)
  <2> PICK j : j = JobOf(p, w)
    OBVIOUS
  <2>1. /\ worker[p][w].pc \in {"report", "requeued", "failed"} /\ UNCHANGED jobs
        /\ worker' = [worker EXCEPT ![p][w] = Claiming]
        /\ worker[p][w].pc = "report"   => progress' = ProgressSet(j, "completed")
        /\ worker[p][w].pc = "requeued" => progress' = ProgressSet(j, "pending")
        /\ worker[p][w].pc = "failed"   => progress' = ProgressSet(j, "failed")
    BY <1>4 DEF ReportCompleted, ReportRetry, ReportFailed, WorkStep, Release
  <2>2. /\ \A v \in Workers : v # w => worker'[p][v] = worker[p][v]
        /\ worker'[p][w] = Claiming
    BY <2>1 DEF TypeOK
  <2>3. j \in Jobs /\ AgreeAt(p, w) /\ RowAgrees(j)
    BY <2>1, BusyHasJob DEF BusySteps, RowsAgree
  <2>4. /\ jobs[j].status # "absent" /\ progress[j] # "absent"
        /\ worker[p][w].pc = "report"   => jobs[j].status = "completed"
        /\ worker[p][w].pc = "requeued" => jobs[j].status = "pending"
        /\ worker[p][w].pc = "failed"   => jobs[j].status = "failed"
    BY <2>1, <2>3 DEF AgreeAt, RowAgrees, BusySteps
  <2>5. /\ progress'[j] = jobs[j].status
        /\ \A k \in Jobs : k # j => progress'[k] = progress[k]
    BY <2>1, <2>3, <2>4 DEF ProgressSet, TypeOK
  <2>6. AgreeAt(p, w)'
    BY <2>2 DEF AgreeAt, Claiming, At, BusySteps
  <2>7. RowAgrees(j)'
    BY <2>1, <2>4, <2>5 DEF RowAgrees
  <2>8. QED
    BY <2>1, <2>2, <2>3, <2>5, <2>6, <2>7, AgreeStep
<1>5. CASE WorkerEnds(p, w)
  BY <1>5, EndIdles, AgreeFrame DEF WorkerEnds, tables
<1>6. QED
  BY <1>1, <1>2, <1>3, <1>4, <1>5 DEF Process

\* Without deletions and retention no row disappears.
LEMMA OthersAgree ==
  ASSUME TypeOK, CountInv, AgreeInv, OneProcess, Kept, [Next]_vars,
         ~ \E p \in Procs, w \in Workers : ClaimNext(p, w) \/ Process(p, w)
  PROVE  \A j \in Jobs : \/ jobs'[j] = jobs[j] /\ progress'[j] = progress[j]
                         \/ /\ jobs[j].status = "absent"
                            /\ jobs'[j].status = "pending" /\ progress'[j] = "pending"
<1>0. jobs \in [Jobs -> Row] /\ progress \in [Jobs -> JobStatus]
  BY DEF TypeOK
<1> DEFINE Goal == \A j \in Jobs : \/ jobs'[j] = jobs[j] /\ progress'[j] = progress[j]
                                   \/ /\ jobs[j].status = "absent"
                                      /\ jobs'[j].status = "pending" /\ progress'[j] = "pending"
<1>1. UNCHANGED <<jobs, progress>> => Goal
  OBVIOUS
<1>2. ASSUME NEW p \in Procs, NEW j \in Jobs,
             Enqueue(p, j) \/ EnqueueThrows(p, j) \/ EnqueueDrains(p, j)
      PROVE  Goal
  <2>1. InsertJob(j) \/ UNCHANGED <<jobs, progress>>
    BY <1>2 DEF Enqueue, EnqueueThrows, EnqueueDrains, tables
  <2>2. jobs[j].status = "absent" <=> progress[j] = "absent"
    BY DEF AgreeInv, RowAgrees
  <2>3. ASSUME InsertJob(j)
        PROVE  Goal
    <3>1. CASE jobs[j].status = "absent"
      BY <1>0, <2>2, <2>3, <3>1 DEF InsertJob, NewRow, NoRow
    <3>2. CASE jobs[j].status # "absent"
      BY <2>2, <2>3, <3>2 DEF InsertJob
    <3>3. QED
      BY <3>1, <3>2
  <2>4. QED
    BY <1>1, <2>1, <2>3
<1>3. ASSUME NEW p \in Procs, DeleteNext(p) \/ \E r \in Repos : DeleteRequested(p, r)
      PROVE  FALSE
  <2>1. deletion[p].pc = "idle" /\ Deletable = {}
    BY DEF AgreeInv, Kept
  <2>2. QED
    BY <1>3, <2>1
       DEF DeleteNext, DeleteRequested, PurgeWaiting, AwaitRepoIdle, CheckRunning, WipeRows,
           DeleteReturns, DeleteRepeats, DeletionStep
<1>4. ASSUME NEW p \in Procs, ResetRunningJobs(p)
      PROVE  Goal
  <2>1. \A j \in Jobs : jobs'[j] = jobs[j]
    BY <1>4, ResetKeeps
  <2>2. UNCHANGED progress
    BY <1>4 DEF ResetRunningJobs
  <2>3. QED
    BY <2>1, <2>2
<1>5. ASSUME NEW p \in Procs, CleanupAtStart(p) \/ CleanupTimer(p)
      PROVE  Goal
  <2>1. CleanupExpiredState
    BY <1>5 DEF CleanupAtStart, CleanupTimer
  <2>2. \A S : Expired(S) = {{}}
    BY DEF Expired, Kept
  <2>3. /\ DeleteJobs({})
        /\ progress' = [j \in Jobs |-> IF j \in {} THEN "absent" ELSE progress[j]]
    BY <2>1, <2>2 DEF CleanupExpiredState
  <2>4. QED
    BY <2>3 DEF DeleteJobs
<1>6. ASSUME NEW p \in Procs, Crash(p) \/ Restart(p)
      PROVE  Goal
  BY <1>1, <1>6 DEF Crash, Restart, tables
<1>7. ASSUME NEW j \in Jobs, RowAges(j)
      PROVE  FALSE
  BY <1>7 DEF RowAges, OneProcess, CountInv, RowCounted
<1>8. CASE UNCHANGED vars
  BY <1>1, <1>8 DEF vars
<1>9. QED
  BY <1>2, <1>3, <1>4, <1>5, <1>6, <1>7, <1>8 DEF Next, HouseNext

LEMMA AgreeNext ==
  ASSUME OneProcess, Kept
  PROVE  TypeOK /\ TypeOK' /\ LockInv /\ CountInv /\ AgreeInv /\ [Next]_vars => AgreeInv'
<1> SUFFICES ASSUME TypeOK, TypeOK', LockInv, CountInv, AgreeInv, [Next]_vars
             PROVE  AgreeInv'
  OBVIOUS
<1>1. RowsAgree
  BY DEF AgreeInv, RowsAgree
<1>2. RowsAgree'
  <2>1. CASE \E p \in Procs, w \in Workers : ClaimNext(p, w) \/ Process(p, w)
    BY <1>1, <2>1, AgreeClaim, AgreeProcess
  <2>2. CASE ~ \E p \in Procs, w \in Workers : ClaimNext(p, w) \/ Process(p, w)
    <3>1. \A p \in Procs, w \in Workers : Idles(p, w)
      BY <2>2, OthersIdle
    <3>2. QED
      BY <1>1, <2>2, <3>1, OthersAgree, AgreeFrame
  <2>3. QED
    BY <2>1, <2>2
<1>3. \A p \in Procs : deletion'[p].pc = "idle"
  BY DeletionIdle DEF AgreeInv, Kept
<1>4. QED
  BY <1>2, <1>3 DEF AgreeInv, RowsAgree

LEMMA AgreeInit == Init => AgreeInv
  BY DEF Init, AgreeInv, AgreeAt, RowAgrees, NoRow, NoDeletion, Off, At, BusySteps

\* Whatever throws in processStoredJob and whichever claim runs twice, a job that
\* no worker holds shows in its progress row as what it is, as long as a process
\* is alone on its tables and stays up, and nothing is deleted or expires.
THEOREM ProgressKept == ASSUME OneProcess, Kept PROVE Spec => []ProgressAgrees
<1>1. AgreeInv => ProgressAgrees
  BY DEF AgreeInv, RowAgrees, ProgressAgrees
<1>2. QED
  BY <1>1, CountInit, CountNext, AgreeInit, AgreeNext, LockInit, LockNext, TypeInit, TypeNext,
     PTL DEF Spec

-----------------------------------------------------------------------------
(* The tables implement the ledger.                                         *)

ledgerBar == [j \in Jobs |-> jobs[j].status]

LEMMA LedgerStep ==
  ASSUME TypeOK, OwnInv, JobsMove
  PROVE  Ledger!Next \/ UNCHANGED ledgerBar
<1> USE DEF TypeOK
<1>1. CASE UNCHANGED jobs
  BY <1>1 DEF ledgerBar
<1>2. ASSUME NEW j \in Jobs, InsertJob(j)
      PROVE  Ledger!Submit(j) \/ UNCHANGED jobs
  <2>1. CASE jobs[j].status = "absent"
    <3>1. jobs' = [jobs EXCEPT ![j] = NewRow]
      BY <1>2, <2>1 DEF InsertJob
    <3>2. \A k \in Jobs : jobs'[k].status = IF k = j THEN "pending" ELSE jobs[k].status
      BY <3>1 DEF NewRow, NoRow
    <3>3. QED
      BY <2>1, <3>2 DEF Ledger!Submit
  <2>2. CASE jobs[j].status # "absent"
    BY <1>2, <2>2 DEF InsertJob
  <2>3. QED
    BY <2>1, <2>2
<1>3. ASSUME NEW p \in Procs, NEW w \in Workers, NEW j \in Jobs, Claimable(j), TakeRow(p, w, j)
      PROVE  Ledger!Claim(j)
  <2>1. \A k \in Jobs : jobs'[k].status = IF k = j THEN "running" ELSE jobs[k].status
    BY <1>3 DEF TakeRow
  <2>2. jobs[j].status = "pending" /\ \A k \in Jobs : RepoOf[k] = RepoOf[j] => jobs[k].status # "running"
    BY <1>3 DEF Claimable, RunningOf
  <2>3. QED
    BY <2>1, <2>2 DEF Ledger!Claim
<1>4. ASSUME NEW p \in Procs, NEW w \in Workers, SettlesRow(p, w)
      PROVE  Ledger!Next
  <2>1. PICK j \in Jobs : j = JobOf(p, w)
    BY <1>4 DEF SettlesRow
  <2>2. jobs[j].status = "running"
    BY <1>4, <2>1 DEF SettlesRow, OwnInv, OwnsRow
  <2>3. PICK s \in {"pending", "completed", "failed"} : jobs' = Settled(j, s)
    BY <1>4, <2>1 DEF SettlesRow
  <2>4. \A k \in Jobs : jobs'[k].status = IF k = j THEN s ELSE jobs[k].status
    BY <2>2, <2>3 DEF Settled, Row
  <2>5. CASE s = "pending"
    <3>1. Ledger!Return({j})
      BY <2>2, <2>4, <2>5 DEF Ledger!Return
    <3>2. QED
      BY <3>1 DEF Ledger!Next
  <2>6. CASE s \in {"completed", "failed"}
    <3>1. Ledger!Settle(j)
      BY <2>2, <2>4, <2>6 DEF Ledger!Settle
    <3>2. QED
      BY <3>1 DEF Ledger!Next
  <2>7. QED
    BY <2>5, <2>6
<1>5. ASSUME NEW p \in Procs, ResetRunningJobs(p)
      PROVE  Ledger!Next
  <2> PICK S \in SUBSET Jobs : S = {j \in Jobs : jobs[j].status = "running" /\ jobs[j].old}
    OBVIOUS
  <2>1. \A k \in Jobs : jobs'[k].status = IF k \in S THEN "pending" ELSE jobs[k].status
    BY <1>5 DEF ResetRunningJobs, Row
  <2>2. Ledger!Return(S)
    BY <2>1 DEF Ledger!Return
  <2>3. QED
    BY <2>2 DEF Ledger!Next
<1>6. ASSUME NEW S \in SUBSET Jobs, \A j \in S : jobs[j].status \in {"completed", "failed"},
             DeleteJobs(S)
      PROVE  Ledger!Next
  <2>1. \A k \in Jobs : jobs'[k].status = IF k \in S THEN "absent" ELSE jobs[k].status
    BY <1>6 DEF DeleteJobs, NoRow
  <2>2. Ledger!Forget(S)
    BY <1>6, <2>1 DEF Ledger!Forget
  <2>3. QED
    BY <2>2 DEF Ledger!Next
<1>7. ASSUME NEW j \in Jobs, RowAges(j)
      PROVE  UNCHANGED ledgerBar
  BY <1>7 DEF RowAges, Row, ledgerBar
<1>8. QED
  BY <1>1, <1>2, <1>3, <1>4, <1>5, <1>6, <1>7 DEF JobsMove, Ledger!Next, ledgerBar

\* The rows of the tables go through exactly the life that JobLedger promises:
\* claimed alone in their repository, settled only while they run, returned to
\* the queue only while they run, forgotten only when they are finished.
THEOREM LedgerImplemented == ASSUME Undisturbed PROVE Spec => ImplementsLedger
<1>1. Init => Ledger!Init
  BY DEF Init, Ledger!Init, NoRow
<1>2. Init => OwnInv
  BY DEF Init, OwnInv, NoDeletion, OwnSteps, Off, At
<1>3. TypeOK /\ OwnInv /\ [Next]_vars => [Ledger!Next]_ledgerBar
  BY JobsMoves, LedgerStep
<1>4. QED
  BY <1>1, <1>2, <1>3, OwnNext, TypeCorrect, PTL
     DEF Spec, ImplementsLedger, Ledger!Spec, ledgerBar

-----------------------------------------------------------------------------
(* A job that was deleted stays deleted.                                    *)

\* Only enqueue makes a row: what a worker writes about a job that a deletion or
\* the retention removed under it is lost.
THEOREM Unresurrected == Spec => NoResurrection
<1> DEFINE Absent == \A j \in Jobs : jobs[j].status = "absent" => jobs'[j].status = "absent"
<1>1. ASSUME TypeOK, [Next]_vars
      PROVE  Absent \/ enqueues' # enqueues
  <2> USE <1>1
  <2>1. CASE UNCHANGED jobs
    BY <2>1
  <2>2. ASSUME NEW p \in Procs, NEW j \in Jobs, Enqueue(p, j) \/ EnqueueThrows(p, j)
        PROVE  enqueues' # enqueues
    <3>1. enqueues \in Nat
      BY Constant DEF TypeOK
    <3>2. enqueues' = enqueues + 1
      BY <2>2 DEF Enqueue, EnqueueThrows
    <3>3. QED
      BY <3>1, <3>2
  <2>3. ASSUME NEW j \in Jobs, NEW s, jobs' = Settled(j, s)
        PROVE  Absent
    BY <2>3 DEF Settled, Row, TypeOK
  <2>4. ASSUME NEW S, DeleteJobs(S)
        PROVE  Absent
    BY <2>4 DEF DeleteJobs, NoRow, TypeOK
  <2>5. ASSUME NEW p \in Procs, NEW w \in Workers, ClaimNext(p, w)
        PROVE  Absent
    <3>1. \/ UNCHANGED jobs
          \/ /\ worker[p][w].pc = "mark"
             /\ Claimable(JobOf(p, w)) /\ TakeRow(p, w, JobOf(p, w))
      BY <2>5 DEF ClaimNext, SelectJob, SelectNextPage, SelectNone, ClaimStep, MarkRunning,
                  MarkRunningAgain, MarkRefused, MarkStep, Adopt, tables
    <3>2. worker[p][w].pc = "mark" => JobOf(p, w) \in Jobs
      BY BusyHasJob DEF BusySteps
    <3>3. QED
      BY <3>1, <3>2 DEF Claimable, TakeRow, TypeOK
  <2>6. ASSUME NEW p \in Procs, NEW w \in Workers, Process(p, w), ~ UNCHANGED jobs
        PROVE  Absent
    <3>1. \/ MarkCompleted(p, w) \/ MarkCompletedThrows(p, w)
          \/ MarkPendingForRetry(p, w) \/ MarkFailed(p, w)
      BY <2>6 DEF Process, StartJob, ReportCompleted, StartJobThrows, JobThrows,
                  ReportCompletedThrows, ReportRetry, ReportFailed, WorkerEnds, tables
    <3>2. worker[p][w].pc \in {"run", "requeue", "fail"}
      BY <3>1 DEF MarkCompleted, MarkCompletedThrows, MarkPendingForRetry, MarkFailed,
                  InTry, WorkStep
    <3>3. JobOf(p, w) \in Jobs
      BY <3>2, BusyHasJob DEF BusySteps
    <3>4. \E s : jobs' = Settled(JobOf(p, w), s)
      BY <2>6, <3>1 DEF MarkCompleted, MarkCompletedThrows, MarkPendingForRetry, MarkFailed
    <3>5. QED
      BY <2>3, <3>3, <3>4
  <2>7. ASSUME NEW p \in Procs, DeleteNext(p) \/ \E r \in Repos : DeleteRequested(p, r)
        PROVE  Absent
    BY <2>1, <2>4, <2>7
       DEF DeleteNext, DeleteRequested, PurgeWaiting, AwaitRepoIdle, CheckRunning, WipeRows,
           DeleteReturns, DeleteRepeats, tables
  <2>8. ASSUME NEW p \in Procs, ResetRunningJobs(p)
        PROVE  Absent
    BY <2>8 DEF ResetRunningJobs, Row, TypeOK
  <2>9. ASSUME NEW p \in Procs, CleanupAtStart(p) \/ CleanupTimer(p) \/ Crash(p) \/ Restart(p)
        PROVE  Absent
    BY <2>1, <2>4, <2>9
       DEF CleanupAtStart, CleanupTimer, CleanupExpiredState, Crash, Restart, tables
  <2>10. ASSUME NEW j \in Jobs, RowAges(j)
         PROVE  Absent
    BY <2>10 DEF RowAges, Row, TypeOK
  <2>11. ASSUME NEW p \in Procs, NEW j \in Jobs, EnqueueDrains(p, j)
         PROVE  Absent
    BY <2>1, <2>11 DEF EnqueueDrains, tables
  <2>12. CASE UNCHANGED vars
    BY <2>1, <2>12 DEF vars
  <2> HIDE DEF Absent
  <2>13. QED
    BY <2>1, <2>2, <2>5, <2>6, <2>7, <2>8, <2>9, <2>10, <2>11, <2>12 DEF Next, HouseNext
<1>2. TypeOK /\ [Next]_vars
        => [\A j \in Jobs : jobs[j].status = "absent" /\ jobs'[j].status # "absent"
                              => enqueues' # enqueues]_vars
  BY <1>1
<1>3. QED
  BY <1>2, TypeCorrect, PTL DEF Spec, NoResurrection

=============================================================================
