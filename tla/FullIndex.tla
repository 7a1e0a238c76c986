------------------------------ MODULE FullIndex ------------------------------
(***************************************************************************)
(* RepoIndexer.fullIndex (src/code-indexer/repoIndexer.ts): the full index *)
(* of one repository.  A run drops and creates the collection, reads the   *)
(* files of the snapshot with several file workers, packs their chunks into *)
(* batches, embeds and upserts the batches concurrently, and saves the     *)
(* manifest when all is written.  The queue starts a run of the repository *)
(* (a retry, or the job of a later push) when the one before it has ended, *)
(* but nothing cancels what a run that failed has left in flight.          *)
(*                                                                         *)
(* Every call of GitHub, the embedding service or the store is a step, and *)
(* so is the code between two awaits.  An upsert looks the collection up   *)
(* and writes its points in one step.                                      *)
(***************************************************************************)
EXTENDS Naturals, FiniteSets

CONSTANTS NumRuns,               \* runs of the repository, one after the other
          ShaOf,                 \* the commit each run indexes
          NumFiles,              \* indexable files of the snapshot
          ChunkCount,            \* the chunks of each file
          FileWorkers,           \* file workers: fileConcurrency
          EmbeddingConcurrency,  \* embeddingConcurrency
          BatchSize,             \* embeddingBatchSize
          Events                 \* what may go wrong, see EventKinds

EventKinds ==
  { "fileError",   \* reading or chunking a file, or its progress write, throws
    "batchError",  \* embedding or upserting a batch throws
    "storeError",  \* dropping or creating the collection or saving the manifest throws
    "crash" }      \* the process ends and is restarted

Runs  == 1 .. NumRuns
Files == 1 .. NumFiles

ASSUME FullIndexAssumption ==
  /\ NumRuns \in Nat \ {0} /\ NumFiles \in Nat
  /\ ChunkCount \in [Files -> Nat]
  /\ DOMAIN ShaOf = Runs
  /\ IsFiniteSet(FileWorkers) /\ FileWorkers # {}
  /\ EmbeddingConcurrency \in Nat \ {0}
  /\ BatchSize \in Nat \ {0}
  /\ Events \subseteq EventKinds

VARIABLES
  run,         \* the run that the queue has started last
  phase,       \* phase[a]: how far run a is
  nextFile,    \* nextFile[a]: nextIndex of forEachWithConcurrency
  fileWorker,  \* fileWorker[a][w]: what file worker w of run a is doing
  files,       \* files[a]: manifestFiles
  batch,       \* batch[a]: currentBatch
  active,      \* active[a]: the batches being embedded or upserted
  awaited,     \* awaited[a]: the batches that flush waits for
  collection,  \* the points of the collection, with its existence
  manifest     \* the saved manifest: its commit and its files

vars == <<run, phase, nextFile, fileWorker, files, batch, active, awaited,
          collection, manifest>>

-----------------------------------------------------------------------------
ChunksOf(f) == {f} \X (1 .. ChunkCount[f])
Chunk == UNION {ChunksOf(f) : f \in Files}

\* The id of a point hashes the commit, the path and the index of its chunk.
Point(a, c) == <<ShaOf[a], c>>
Points(a, S) == {Point(a, c) : c \in S}

Phases == {"queued", "drop", "unlist", "create", "files", "last", "await", "save", "done", "failed"}

\* A file worker asks for its "next" file, "read"s it, "add"s its chunks from
\* chunk number chunk on, "wait"s for one of race, "threw" or came to its "end".
WorkerSteps == {"next", "read", "add", "wait", "threw", "end"}
Waiter(f, i, race) == [pc |-> "wait", file |-> f, chunk |-> i, race |-> race]
At(step, f, i) == [pc |-> step, file |-> f, chunk |-> i, race |-> {}]

\* The chunks a worker has read and not yet put into a batch.
InHand(a, w) ==
  LET fw == fileWorker[a][w] IN
  IF fw.pc \in {"add", "wait"} THEN {c \in ChunksOf(fw.file) : c[2] >= fw.chunk} ELSE {}

Ended(a) == phase[a] \in {"done", "failed"}

Goto(a, p) == phase' = [phase EXCEPT ![a] = p]
WorkerGoto(a, w, fw) == fileWorker' = [fileWorker EXCEPT ![a][w] = fw]

-----------------------------------------------------------------------------
Init ==
  /\ run = 1
  /\ phase = [a \in Runs |-> IF a = 1 THEN "drop" ELSE "queued"]
  /\ nextFile = [a \in Runs |-> 1]
  /\ fileWorker = [a \in Runs |-> [w \in FileWorkers |-> At("next", 0, 0)]]
  /\ files = [a \in Runs |-> {}]
  /\ batch = [a \in Runs |-> {}]
  /\ active = [a \in Runs |-> {}]
  /\ awaited = [a \in Runs |-> {}]
  /\ collection = [exists |-> FALSE, points |-> {}]
  /\ manifest = [sha |-> 0, files |-> {}]

\* The queue starts the next job of the repository.
NextRun ==
  /\ run < NumRuns /\ Ended(run)
  /\ run' = run + 1
  /\ Goto(run + 1, "drop")
  /\ UNCHANGED <<nextFile, fileWorker, files, batch, active, awaited, collection, manifest>>

-----------------------------------------------------------------------------
(* resetCollection.                                                        *)

Setup(a, step) ==
  /\ phase[a] = step
  /\ UNCHANGED <<run, nextFile, fileWorker, files, batch, active, awaited>>

\* deleteCollection deletes the points, and then the collection's own row.
DropPoints(a) ==
  /\ Setup(a, "drop")
  /\ collection' = [collection EXCEPT !.points = {}]
  /\ Goto(a, "unlist")
  /\ UNCHANGED manifest

DropCollection(a) ==
  /\ Setup(a, "unlist")
  /\ collection' = [collection EXCEPT !.exists = FALSE]
  /\ Goto(a, "create")
  /\ UNCHANGED manifest

CreateCollection(a) ==
  /\ Setup(a, "create")
  /\ collection' = [collection EXCEPT !.exists = TRUE]
  /\ Goto(a, "files")
  /\ UNCHANGED manifest

\* A call before or after the files are processed throws.
StoreThrows(a) ==
  /\ "storeError" \in Events
  /\ \E step \in {"drop", "unlist", "create", "save"} : Setup(a, step)
  /\ Goto(a, "failed")
  /\ UNCHANGED <<collection, manifest>>

-----------------------------------------------------------------------------
(* forEachWithConcurrency.                                                 *)

FileStep(a, w, step) ==
  /\ fileWorker[a][w].pc = step
  /\ phase[a] \in {"files", "failed"}
  /\ UNCHANGED <<run, phase, awaited, collection, manifest>>

\* Mutant: nextIndex is advanced before it is compared.
TakeFileCountsOn(a, w) ==
  /\ FileStep(a, w, "next")
  /\ nextFile' = [nextFile EXCEPT ![a] = @ + 1]
  /\ WorkerGoto(a, w, IF nextFile[a] <= NumFiles THEN At("read", nextFile[a], 1)
                      ELSE At("end", 0, 0))
  /\ UNCHANGED <<files, batch, active>>

\* The worker has reported its last file: it takes another one or returns.
TakeFile(a, w) ==
  /\ FileStep(a, w, "next")
  /\ IF nextFile[a] <= NumFiles
     THEN /\ WorkerGoto(a, w, At("read", nextFile[a], 1))
          /\ nextFile' = [nextFile EXCEPT ![a] = @ + 1]
     ELSE WorkerGoto(a, w, At("end", 0, 0)) /\ UNCHANGED nextFile
  /\ UNCHANGED <<files, batch, active>>

\* readAndChunkSingleFile.  A run that has failed has closed its snapshot.
ReadFile(a, w) ==
  LET f == fileWorker[a][w].file IN
  /\ FileStep(a, w, "read")
  /\ phase[a] = "files"
  /\ IF ChunkCount[f] = 0
     THEN WorkerGoto(a, w, At("next", f, 0)) /\ UNCHANGED files
     ELSE /\ WorkerGoto(a, w, At("add", f, 1))
          /\ files' = [files EXCEPT ![a] = @ \cup {f}]
  /\ UNCHANGED <<nextFile, batch, active>>

FileThrows(a, w) ==
  /\ \/ FileStep(a, w, "read") /\ ("fileError" \in Events \/ phase[a] = "failed")
     \/ FileStep(a, w, "next") /\ "fileError" \in Events /\ fileWorker[a][w].file # 0
  /\ WorkerGoto(a, w, At("threw", 0, 0))
  /\ UNCHANGED <<nextFile, files, batch, active>>

-----------------------------------------------------------------------------
(* createEmbeddingBatcher.                                                 *)

\* add: the chunks fit into currentBatch.
AddLast(a, w) ==
  LET rest == InHand(a, w) IN
  /\ FileStep(a, w, "add")
  /\ Cardinality(batch[a]) + Cardinality(rest) < BatchSize
  /\ batch' = [batch EXCEPT ![a] = @ \cup rest]
  /\ WorkerGoto(a, w, At("next", fileWorker[a][w].file, 0))
  /\ UNCHANGED <<nextFile, files, active>>

\* Mutant: the batch that was scheduled stays the current batch.
AddFullKeepsBatch(a, w) ==
  LET f == fileWorker[a][w].file
      upto == fileWorker[a][w].chunk + (BatchSize - Cardinality(batch[a]))
      full == batch[a] \cup {c \in InHand(a, w) : c[2] < upto}
  IN
  /\ FileStep(a, w, "add")
  /\ upto <= ChunkCount[f] + 1
  /\ batch' = [batch EXCEPT ![a] = full]
  /\ active' = [active EXCEPT ![a] = @ \cup {full}]
  /\ WorkerGoto(a, w, IF Cardinality(active'[a]) >= EmbeddingConcurrency
                      THEN Waiter(f, upto, active'[a]) ELSE At("add", f, upto))
  /\ UNCHANGED <<nextFile, files>>

\* add: currentBatch is full and scheduled.  The worker goes on at once, or
\* waits for any one of the active batches when there are enough of them.
AddFull(a, w) ==
  LET f == fileWorker[a][w].file
      upto == fileWorker[a][w].chunk + (BatchSize - Cardinality(batch[a]))
      full == batch[a] \cup {c \in InHand(a, w) : c[2] < upto}
  IN
  /\ FileStep(a, w, "add")
  /\ upto <= ChunkCount[f] + 1
  /\ batch' = [batch EXCEPT ![a] = {}]
  /\ active' = [active EXCEPT ![a] = @ \cup {full}]
  /\ WorkerGoto(a, w, IF Cardinality(active'[a]) >= EmbeddingConcurrency
                      THEN Waiter(f, upto, active'[a]) ELSE At("add", f, upto))
  /\ UNCHANGED <<nextFile, files>>

\* Mutant: nobody waits for this batch any more, and nobody is woken.
SettleSilently(a, t, ok) ==
  /\ active' = [active EXCEPT ![a] = @ \ {t}]
  /\ awaited' = [awaited EXCEPT ![a] = @ \ {t}]
  /\ UNCHANGED <<run, phase, nextFile, fileWorker, files, batch, manifest>>

\* The batch t of run a settles: it leaves active, the workers that race on it
\* go on or throw, and so does the run when it waits for it.
Settle(a, t, ok) ==
  /\ active' = [active EXCEPT ![a] = @ \ {t}]
  /\ fileWorker' = [fileWorker EXCEPT ![a] =
       [w \in FileWorkers |->
          LET fw == fileWorker[a][w] IN
          IF t \notin fw.race THEN fw
          ELSE IF ok THEN At("add", fw.file, fw.chunk) ELSE At("threw", 0, 0)]]
  /\ \/ t \notin awaited[a] /\ UNCHANGED <<phase, awaited>>
     \/ /\ t \in awaited[a]
        /\ awaited' = [awaited EXCEPT ![a] = IF ok THEN active[a] \ {t} ELSE {}]
        /\ Goto(a, IF ~ ok THEN "failed" ELSE IF active[a] = {t} THEN "save" ELSE "await")
  /\ UNCHANGED <<run, nextFile, files, batch, manifest>>

Upserted(a, t) ==
  /\ t \in active[a]
  /\ collection.exists
  /\ collection' = [collection EXCEPT !.points = @ \cup Points(a, t)]
  /\ Settle(a, t, TRUE)

\* embedDocuments or upsertChunks throws, or the progress write after it.
BatchThrows(a, t) ==
  /\ t \in active[a]
  /\ \/ ~ collection.exists /\ UNCHANGED collection
     \/ "batchError" \in Events /\ UNCHANGED collection
     \/ /\ "batchError" \in Events /\ collection.exists
        /\ collection' = [collection EXCEPT !.points = @ \cup Points(a, t)]
  /\ Settle(a, t, FALSE)

-----------------------------------------------------------------------------
(* The end of a run.                                                       *)

FilesDone(a) ==
  /\ phase[a] = "files"
  /\ \A w \in FileWorkers : fileWorker[a][w].pc = "end"

\* Mutant: what is left in currentBatch is not flushed.
FlushActiveOnly(a) ==
  /\ FilesDone(a)
  /\ awaited' = [awaited EXCEPT ![a] = active[a]]
  /\ Goto(a, IF active[a] = {} THEN "save" ELSE "await")
  /\ UNCHANGED <<run, nextFile, fileWorker, files, batch, active, collection, manifest>>

\* flush: the rest of currentBatch is scheduled, which may wait for any active
\* batch ("last"), and then for all that are still active ("await").
Flush(a) ==
  LET all == active[a] \cup (IF batch[a] = {} THEN {} ELSE {batch[a]}) IN
  /\ FilesDone(a)
  /\ batch' = [batch EXCEPT ![a] = {}]
  /\ active' = [active EXCEPT ![a] = all]
  /\ awaited' = [awaited EXCEPT ![a] = all]
  /\ Goto(a, IF all = {} THEN "save"
             ELSE IF batch[a] # {} /\ Cardinality(all) >= EmbeddingConcurrency
             THEN "last" ELSE "await")
  /\ UNCHANGED <<run, nextFile, fileWorker, files, collection, manifest>>

\* Promise.all rejects, the snapshot is closed and the job has failed.
RunFails(a) ==
  /\ phase[a] = "files"
  /\ \E w \in FileWorkers : fileWorker[a][w].pc = "threw"
  /\ Goto(a, "failed")
  /\ UNCHANGED <<run, nextFile, fileWorker, files, batch, active, awaited,
                 collection, manifest>>

SaveManifest(a) ==
  /\ Setup(a, "save")
  /\ manifest' = [sha |-> ShaOf[a], files |-> files[a]]
  /\ Goto(a, "done")
  /\ UNCHANGED collection

\* The process ends: its runs stop where they are, and the one that was not
\* over is started again as the next run.
Crash ==
  /\ "crash" \in Events
  /\ ~ Ended(run)
  /\ Goto(run, "failed")
  /\ fileWorker' = [a \in Runs |-> [w \in FileWorkers |->
                      IF a <= run THEN At("end", 0, 0) ELSE fileWorker[a][w]]]
  /\ active' = [a \in Runs |-> {}]
  /\ awaited' = [a \in Runs |-> {}]
  /\ batch' = [a \in Runs |-> {}]
  /\ UNCHANGED <<run, nextFile, files, collection, manifest>>

-----------------------------------------------------------------------------
Work(a) ==
  \/ DropPoints(a) \/ DropCollection(a) \/ CreateCollection(a) \/ StoreThrows(a)
  \/ \E w \in FileWorkers :
       TakeFile(a, w) \/ ReadFile(a, w) \/ FileThrows(a, w) \/ AddLast(a, w) \/ AddFull(a, w)
  \/ \E t \in active[a] : Upserted(a, t) \/ BatchThrows(a, t)
  \/ Flush(a) \/ RunFails(a) \/ SaveManifest(a)

Next == NextRun \/ (\E a \in Runs : Work(a)) \/ Crash

Spec == Init /\ [][Next]_vars

\* Every call a run has made is answered.
FairSpec == Spec /\ \A a \in Runs : WF_vars(Work(a))

-----------------------------------------------------------------------------
(* Properties.                                                             *)

\* Every variable keeps its shape.
TypeOK ==
  /\ run \in Runs
  /\ phase \in [Runs -> Phases]
  /\ nextFile \in [Runs -> 1 .. NumFiles + 1]
  /\ fileWorker \in [Runs -> [FileWorkers ->
       [pc : WorkerSteps, file : Files \cup {0}, chunk : Nat, race : SUBSET SUBSET Chunk]]]
  /\ files \in [Runs -> SUBSET Files]
  /\ batch \in [Runs -> SUBSET Chunk]
  /\ active \in [Runs -> SUBSET SUBSET Chunk]
  /\ awaited \in [Runs -> SUBSET SUBSET Chunk]
  /\ collection \in [exists : BOOLEAN, points : SUBSET ({ShaOf[a] : a \in Runs} \X Chunk)]
  /\ manifest \in [sha : {ShaOf[a] : a \in Runs} \cup {0}, files : SUBSET Files]

\* The places where a chunk of run a can be before it is written.
Places(a) == {InHand(a, w) : w \in FileWorkers} \cup {batch[a]} \cup active[a]

\* Concurrent file workers share currentBatch: no chunk is embedded twice, no
\* batch is larger than embeddingBatchSize, and no file is read by two workers.
ChunksInOnePlace ==
  \A a \in Runs :
    /\ \A S, T \in Places(a) : S # T => S \cap T = {}
    /\ \A v, w \in FileWorkers :
         v # w /\ fileWorker[a][v].pc \in {"read", "add", "wait"}
           => fileWorker[a][v].file # fileWorker[a][w].file
    /\ Cardinality(batch[a]) < BatchSize
    /\ \A t \in active[a] : t # {} /\ Cardinality(t) <= BatchSize

\* docs/github-app-code-indexer.md, line 152: "Repository manifests are saved after
\* successful full, incremental, and PR indexing jobs".  When a run has saved its
\* manifest, the manifest lists every file that has chunks and the collection
\* holds every chunk of those files.
IndexComplete ==
  phase[run] = "done" =>
    /\ manifest = [sha |-> ShaOf[run], files |-> {f \in Files : ChunkCount[f] > 0}]
    /\ Points(run, Chunk) \subseteq collection.points

\* Every run ends, whatever fails and whoever waits for whom.
RunsEnd == \A a \in Runs : phase[a] = "drop" ~> Ended(a)

=============================================================================
