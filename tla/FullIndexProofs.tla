--------------------------- MODULE FullIndexProofs ---------------------------
(***************************************************************************)
(* Theorems about FullIndex, for every number of runs, files, chunks, file *)
(* workers and concurrent batches, and every batch size.                   *)
(***************************************************************************)
EXTENDS FullIndex, FiniteSetTheorems, TLAPS

-----------------------------------------------------------------------------
(* The shape of the state, and what it needs: currentBatch is finite and   *)
(* never full, and a worker past its first await has a file.               *)

FileWorkerState ==
  [pc : WorkerSteps, file : Files \cup {0}, chunk : Nat, race : SUBSET SUBSET Chunk]

WellPlaced(fw) ==
  /\ fw.pc \in {"read", "add", "wait"} => fw.file \in Files
  /\ fw.pc \in {"add", "wait"} => fw.chunk >= 1
  /\ fw.race # {} => fw.pc = "wait"

Shape ==
  /\ TypeOK
  /\ \A a \in Runs : IsFiniteSet(batch[a]) /\ Cardinality(batch[a]) < BatchSize
  /\ \A a \in Runs, w \in FileWorkers : WellPlaced(fileWorker[a][w])

LEMMA Constant ==
  /\ NumRuns \in Nat \ {0} /\ NumFiles \in Nat /\ BatchSize \in Nat \ {0}
  /\ EmbeddingConcurrency \in Nat \ {0}
  /\ \A f \in Files : ChunkCount[f] \in Nat /\ f \in Nat \ {0} /\ f <= NumFiles
  BY FullIndexAssumption DEF FullIndexAssumption, Files

LEMMA ChunkShape ==
  /\ \A f \in Files : ChunksOf(f) \subseteq Chunk /\ IsFiniteSet(ChunksOf(f))
  /\ \A f \in Files : \A c \in ChunksOf(f) : c[1] = f /\ c[2] \in Nat /\ c = <<c[1], c[2]>>
<1>1. ASSUME NEW f \in Files
      PROVE  /\ ChunksOf(f) \subseteq Chunk /\ IsFiniteSet(ChunksOf(f))
             /\ \A c \in ChunksOf(f) : c[1] = f /\ c[2] \in Nat /\ c = <<c[1], c[2]>>
  <2> DEFINE n == ChunkCount[f]
  <2>1. 1 \in Int /\ n \in Int
    BY Constant
  <2> HIDE DEF n
  <2>2. IsFiniteSet(1 .. n)
    BY <2>1, FS_Interval
  <2>3. IsFiniteSet({f}) /\ IsFiniteSet(1 .. ChunkCount[f])
    BY <2>2, FS_Singleton DEF n
  <2>4. IsFiniteSet(ChunksOf(f))
    BY <2>3, FS_Product DEF ChunksOf
  <2>5. ChunksOf(f) \subseteq Chunk
    BY <1>1 DEF Chunk
  <2>6. QED
    BY <2>4, <2>5, Constant DEF ChunksOf
<1>2. QED
  BY <1>1

\* The records that the steps of a file worker store.
LEMMA AtShape ==
  ASSUME NEW step \in WorkerSteps, NEW f \in Files \cup {0}, NEW i \in Nat, step # "wait",
         step \in {"read", "add"} => f \in Files, step = "add" => i >= 1
  PROVE  At(step, f, i) \in FileWorkerState /\ WellPlaced(At(step, f, i))
  BY DEF At, FileWorkerState, WellPlaced

LEMMA WaiterShape ==
  ASSUME NEW f \in Files, NEW i \in Nat \ {0}, NEW race \in SUBSET SUBSET Chunk
  PROVE  Waiter(f, i, race) \in FileWorkerState /\ WellPlaced(Waiter(f, i, race))
  BY DEF Waiter, FileWorkerState, WellPlaced, WorkerSteps

LEMMA WorkerShape ==
  ASSUME Shape, NEW a \in Runs, NEW w \in FileWorkers
  PROVE  fileWorker[a][w] \in FileWorkerState /\ WellPlaced(fileWorker[a][w])
  BY DEF Shape, TypeOK, FileWorkerState

LEMMA WorkerGotoShape ==
  ASSUME Shape, NEW a \in Runs, NEW w \in FileWorkers, NEW fw \in FileWorkerState,
         WellPlaced(fw), WorkerGoto(a, w, fw)
  PROVE  /\ fileWorker' \in [Runs -> [FileWorkers -> FileWorkerState]]
         /\ \A b \in Runs, v \in FileWorkers :
              fileWorker'[b][v] = IF b = a /\ v = w THEN fw ELSE fileWorker[b][v]
         /\ \A b \in Runs, v \in FileWorkers : WellPlaced(fileWorker'[b][v])
<1>1. fileWorker \in [Runs -> [FileWorkers -> FileWorkerState]]
  BY DEF Shape, TypeOK, FileWorkerState
<1>2. fileWorker' = [fileWorker EXCEPT ![a][w] = fw]
  BY DEF WorkerGoto
<1>3. \A b \in Runs, v \in FileWorkers :
        fileWorker'[b][v] = IF b = a /\ v = w THEN fw ELSE fileWorker[b][v]
  BY <1>1, <1>2
<1>4. QED
  BY <1>1, <1>2, <1>3 DEF Shape

\* What a worker has read belongs to its file.
LEMMA InHandShape ==
  ASSUME Shape, NEW a \in Runs, NEW w \in FileWorkers
  PROVE  /\ InHand(a, w) \subseteq Chunk /\ IsFiniteSet(InHand(a, w))
         /\ \A c \in InHand(a, w) :
              /\ fileWorker[a][w].pc \in {"add", "wait"}
              /\ c \in ChunksOf(fileWorker[a][w].file) /\ c[1] = fileWorker[a][w].file
              /\ c[2] >= fileWorker[a][w].chunk
<1>1. CASE fileWorker[a][w].pc \in {"add", "wait"}
  <2>1. fileWorker[a][w].file \in Files
    BY <1>1, WorkerShape DEF WellPlaced
  <2>2. InHand(a, w) \subseteq ChunksOf(fileWorker[a][w].file)
    BY <1>1 DEF InHand
  <2>3. IsFiniteSet(InHand(a, w))
    BY <2>1, <2>2, ChunkShape, FS_Subset
  <2>4. \A c \in InHand(a, w) : c[2] >= fileWorker[a][w].chunk
    BY <1>1 DEF InHand
  <2>5. QED
    BY <1>1, <2>1, <2>2, <2>3, <2>4, ChunkShape
<1>2. CASE fileWorker[a][w].pc \notin {"add", "wait"}
  BY <1>2, FS_EmptySet DEF InHand
<1>3. QED
  BY <1>1, <1>2

-----------------------------------------------------------------------------
(* The arithmetic of the batcher.                                          *)

\* AddLast adds what is left of a file: the batch stays finite and not full.
LEMMA AddLastShape ==
  ASSUME Shape, NEW a \in Runs, NEW w \in FileWorkers,
         Cardinality(batch[a]) + Cardinality(InHand(a, w)) < BatchSize
  PROVE  LET next == batch[a] \cup InHand(a, w) IN
         next \subseteq Chunk /\ IsFiniteSet(next) /\ Cardinality(next) < BatchSize
<1> DEFINE n == Cardinality(batch[a])
           m == Cardinality(InHand(a, w))
           both == Cardinality(batch[a] \cap InHand(a, w))
<1>1. IsFiniteSet(batch[a]) /\ batch[a] \subseteq Chunk
  BY DEF Shape, TypeOK
<1>2. IsFiniteSet(InHand(a, w)) /\ InHand(a, w) \subseteq Chunk
  BY InHandShape
<1>3. IsFiniteSet(batch[a] \cap InHand(a, w))
  BY <1>1, FS_Intersection
<1>4. n \in Nat /\ m \in Nat /\ both \in Nat
  BY <1>1, <1>2, <1>3, FS_CardinalityType
<1>5. /\ IsFiniteSet(batch[a] \cup InHand(a, w))
      /\ Cardinality(batch[a] \cup InHand(a, w)) = n + m - both
  BY <1>1, <1>2, FS_Union
<1>6. n + m - both < BatchSize
  <2> HIDE DEF n, m, both
  <2>1. n + m < BatchSize
    BY DEF n, m
  <2>2. QED
    BY <1>4, <2>1, Constant
<1>7. QED
  BY <1>1, <1>2, <1>5, <1>6

Upto(a, w) == fileWorker[a][w].chunk + (BatchSize - Cardinality(batch[a]))
FullBatch(a, w) == batch[a] \cup {c \in InHand(a, w) : c[2] < Upto(a, w)}

\* The batch that AddFull schedules has at least one chunk and at most BatchSize.
LEMMA FullBatchShape ==
  ASSUME Shape, NEW a \in Runs, NEW w \in FileWorkers, fileWorker[a][w].pc = "add",
         Upto(a, w) <= ChunkCount[fileWorker[a][w].file] + 1
  PROVE  /\ fileWorker[a][w].file \in Files
         /\ Upto(a, w) \in Nat /\ Upto(a, w) > fileWorker[a][w].chunk
         /\ FullBatch(a, w) \subseteq Chunk /\ FullBatch(a, w) # {}
         /\ Cardinality(FullBatch(a, w)) <= BatchSize
<1> DEFINE f == fileWorker[a][w].file
           i == fileWorker[a][w].chunk
           u == Upto(a, w)
           n == Cardinality(batch[a])
           taken == {c \in InHand(a, w) : c[2] < u}
<1>1. f \in Files /\ i \in Nat /\ i >= 1 /\ ChunkCount[f] \in Nat /\ f \in Nat
  BY WorkerShape, Constant DEF WellPlaced, FileWorkerState
<1>2. IsFiniteSet(batch[a]) /\ batch[a] \subseteq Chunk /\ n \in Nat /\ n < BatchSize
  BY FS_CardinalityType DEF Shape, TypeOK
<1>3. u = i + (BatchSize - n) /\ u \in Nat /\ u > i /\ u <= ChunkCount[f] + 1
  <2>1. u = i + (BatchSize - n) /\ u <= ChunkCount[f] + 1
    BY DEF Upto
  <2> HIDE DEF u, n, i
  <2>2. QED
    BY <1>1, <1>2, <2>1, Constant
<1> HIDE DEF u, n, i
<1>4. i \in 1 .. ChunkCount[f]
  BY <1>1, <1>3
<1>5. <<f, i>> \in taken
  BY <1>1, <1>3, <1>4 DEF InHand, ChunksOf, i
<1>6. taken \subseteq {f} \X (i .. (u - 1))
  <2> SUFFICES ASSUME NEW c \in taken PROVE c \in {f} \X (i .. (u - 1))
    OBVIOUS
  <2>1. c \in ChunksOf(f) /\ c[2] >= i /\ c[2] < u
    BY InHandShape DEF i
  <2>2. c[1] = f /\ c[2] \in Nat /\ c = <<c[1], c[2]>>
    BY <1>1, <2>1, ChunkShape
  <2>3. c[2] \in i .. (u - 1)
    <3>1. c[2] >= i /\ c[2] < u /\ u \in Nat /\ c[2] \in Nat
      BY <1>3, <2>1, <2>2
    <3>2. \A x, y, z \in Nat : y <= x /\ x < z => x \in y .. (z - 1)
      OBVIOUS
    <3>3. QED
      BY <1>1, <3>1, <3>2
  <2>4. QED
    BY <2>2, <2>3
<1>7. IsFiniteSet(taken) /\ Cardinality(taken) <= u - i /\ Cardinality(taken) \in Nat
  <2>1. IsFiniteSet(i .. (u - 1)) /\ Cardinality(i .. (u - 1)) = u - i
    BY <1>1, <1>3, FS_Interval
  <2>2. IsFiniteSet({f}) /\ Cardinality({f}) = 1
    BY FS_Singleton
  <2>3. /\ IsFiniteSet({f} \X (i .. (u - 1)))
        /\ Cardinality({f} \X (i .. (u - 1))) = 1 * (u - i)
    <3> DEFINE A == {f}
               B == i .. (u - 1)
    <3>1. IsFiniteSet(A) /\ IsFiniteSet(B) /\ Cardinality(A) = 1 /\ Cardinality(B) = u - i
      BY <2>1, <2>2
    <3> HIDE DEF A, B
    <3>2. IsFiniteSet(A \X B) /\ Cardinality(A \X B) = Cardinality(A) * Cardinality(B)
      BY <3>1, FS_Product
    <3>3. QED
      BY <3>1, <3>2 DEF A, B
  <2>4. IsFiniteSet(taken) /\ Cardinality(taken) <= Cardinality({f} \X (i .. (u - 1)))
    BY <1>6, <2>3, FS_Subset
  <2>5. Cardinality(taken) \in Nat
    BY <2>4, FS_CardinalityType
  <2>6. QED
    BY <1>1, <1>3, <2>3, <2>4, <2>5
<1>8. Cardinality(batch[a] \cup taken) <= BatchSize
  <2>1. IsFiniteSet(batch[a] \cap taken)
    BY <1>2, FS_Intersection
  <2>2. Cardinality(batch[a] \cap taken) \in Nat
    BY <2>1, FS_CardinalityType
  <2>3. Cardinality(batch[a] \cup taken)
          = Cardinality(batch[a]) + Cardinality(taken) - Cardinality(batch[a] \cap taken)
    BY <1>2, <1>7, FS_Union
  <2>4. Cardinality(batch[a] \cup taken) = n + Cardinality(taken) - Cardinality(batch[a] \cap taken)
    BY <2>3 DEF n
  <2> HIDE DEF taken
  <2>5. QED
    BY <1>1, <1>2, <1>3, <1>7, <2>2, <2>4, Constant
<1>9. FullBatch(a, w) = batch[a] \cup taken
  BY DEF FullBatch, u
<1>10. taken \subseteq Chunk
  BY InHandShape
<1> HIDE DEF taken
<1>11. QED
  BY <1>1, <1>2, <1>3, <1>5, <1>8, <1>9, <1>10 DEF u, i

-----------------------------------------------------------------------------
(* Type correctness.                                                       *)

\* The variables that the operators of the actions touch.
LEMMA GotoShape ==
  ASSUME Shape, NEW a \in Runs, NEW p \in Phases, Goto(a, p)
  PROVE  phase' \in [Runs -> Phases]
  BY DEF Goto, Shape, TypeOK

LEMMA SettleShape ==
  ASSUME Shape, NEW a \in Runs, NEW t \in active[a], NEW ok \in BOOLEAN, Settle(a, t, ok)
  PROVE  /\ fileWorker' \in [Runs -> [FileWorkers -> FileWorkerState]]
         /\ \A b \in Runs, v \in FileWorkers : WellPlaced(fileWorker'[b][v])
         /\ phase' \in [Runs -> Phases]
         /\ active' \in [Runs -> SUBSET SUBSET Chunk]
         /\ awaited' \in [Runs -> SUBSET SUBSET Chunk]
         /\ UNCHANGED <<run, nextFile, files, batch, manifest>>
<1> DEFINE Next1(fw) == IF t \notin fw.race THEN fw
                        ELSE IF ok THEN At("add", fw.file, fw.chunk) ELSE At("threw", 0, 0)
<1>1. \A fw \in FileWorkerState :
        WellPlaced(fw) => Next1(fw) \in FileWorkerState /\ WellPlaced(Next1(fw))
  <2> SUFFICES ASSUME NEW fw \in FileWorkerState, WellPlaced(fw)
               PROVE  Next1(fw) \in FileWorkerState /\ WellPlaced(Next1(fw))
    OBVIOUS
  <2>1. CASE t \in fw.race
    <3>1. fw.file \in Files /\ fw.chunk \in Nat /\ fw.chunk >= 1
      BY <2>1 DEF WellPlaced, FileWorkerState
    <3>2. /\ At("add", fw.file, fw.chunk) \in FileWorkerState
          /\ WellPlaced(At("add", fw.file, fw.chunk))
      BY <3>1, AtShape DEF WorkerSteps
    <3>3. At("threw", 0, 0) \in FileWorkerState /\ WellPlaced(At("threw", 0, 0))
      BY AtShape DEF WorkerSteps
    <3>4. QED
      BY <2>1, <3>2, <3>3
  <2>2. CASE t \notin fw.race
    BY <2>2
  <2>3. QED
    BY <2>1, <2>2
<1>2. fileWorker' = [fileWorker EXCEPT ![a] = [w \in FileWorkers |-> Next1(fileWorker[a][w])]]
  BY DEF Settle
<1> HIDE DEF Next1
<1>3. fileWorker \in [Runs -> [FileWorkers -> FileWorkerState]]
  BY DEF Shape, TypeOK, FileWorkerState
<1>4. \A b \in Runs, v \in FileWorkers :
        fileWorker'[b][v] = IF b = a THEN Next1(fileWorker[b][v]) ELSE fileWorker[b][v]
  BY <1>2, <1>3
<1>5. /\ fileWorker' \in [Runs -> [FileWorkers -> FileWorkerState]]
      /\ \A b \in Runs, v \in FileWorkers : WellPlaced(fileWorker'[b][v])
  BY <1>1, <1>2, <1>3, <1>4 DEF Shape
<1>6. active' \in [Runs -> SUBSET SUBSET Chunk] /\ active[a] \in SUBSET SUBSET Chunk
  BY DEF Settle, Shape, TypeOK
<1>7. phase' \in [Runs -> Phases] /\ awaited' \in [Runs -> SUBSET SUBSET Chunk]
  <2>1. phase \in [Runs -> Phases] /\ awaited \in [Runs -> SUBSET SUBSET Chunk]
    BY DEF Shape, TypeOK
  <2>2. CASE t \notin awaited[a]
    BY <2>1, <2>2 DEF Settle
  <2>3. CASE t \in awaited[a]
    <3>1. PICK p \in {"failed", "save", "await"} : Goto(a, p)
      BY <2>3 DEF Settle
    <3>2. PICK rest \in {{}, active[a] \ {t}} : awaited' = [awaited EXCEPT ![a] = rest]
      BY <2>3 DEF Settle
    <3>3. phase' \in [Runs -> Phases]
      BY <2>1, <3>1 DEF Goto, Phases
    <3>4. rest \in SUBSET SUBSET Chunk
      BY <1>6, <3>2
    <3>5. QED
      BY <2>1, <3>2, <3>3, <3>4
  <2>4. QED
    BY <2>2, <2>3
<1>8. UNCHANGED <<run, nextFile, files, batch, manifest>>
  BY DEF Settle
<1>9. QED
  BY <1>5, <1>6, <1>7, <1>8

LEMMA ShapeInit == Init => Shape
<1> SUFFICES ASSUME Init PROVE Shape
  OBVIOUS
<1>1. At("next", 0, 0) \in FileWorkerState /\ WellPlaced(At("next", 0, 0))
  BY AtShape DEF WorkerSteps
<1>2. fileWorker \in [Runs -> [FileWorkers -> FileWorkerState]]
  BY <1>1 DEF Init
<1>3. \A a \in Runs, w \in FileWorkers : WellPlaced(fileWorker[a][w])
  BY <1>1 DEF Init
<1>4. \A a \in Runs : batch[a] = {}
  BY DEF Init
<1>5. \A a \in Runs : IsFiniteSet(batch[a]) /\ Cardinality(batch[a]) < BatchSize
  BY <1>4, FS_EmptySet, Constant
<1>6. run \in Runs /\ nextFile \in [Runs -> 1 .. NumFiles + 1]
  BY Constant DEF Init, Runs
<1>7. /\ phase \in [Runs -> Phases]
      /\ files \in [Runs -> SUBSET Files] /\ batch \in [Runs -> SUBSET Chunk]
      /\ active \in [Runs -> SUBSET SUBSET Chunk] /\ awaited \in [Runs -> SUBSET SUBSET Chunk]
  BY DEF Init, Phases
<1>8. /\ collection \in [exists : BOOLEAN, points : SUBSET ({ShaOf[a] : a \in Runs} \X Chunk)]
      /\ manifest \in [sha : {ShaOf[a] : a \in Runs} \cup {0}, files : SUBSET Files]
  BY DEF Init
<1>9. TypeOK
  BY <1>2, <1>6, <1>7, <1>8 DEF TypeOK, FileWorkerState
<1>10. QED
  BY <1>3, <1>5, <1>9 DEF Shape

\* A step that leaves the file workers and currentBatch alone.
LEMMA KeptShape ==
  ASSUME Shape, UNCHANGED <<nextFile, fileWorker, files, batch>>, run' \in Runs,
         phase' \in [Runs -> Phases],
         active' \in [Runs -> SUBSET SUBSET Chunk],
         awaited' \in [Runs -> SUBSET SUBSET Chunk],
         collection' \in [exists : BOOLEAN, points : SUBSET ({ShaOf[a] : a \in Runs} \X Chunk)],
         manifest' \in [sha : {ShaOf[a] : a \in Runs} \cup {0}, files : SUBSET Files]
  PROVE  Shape'
<1>1. TypeOK'
  BY DEF Shape, TypeOK
<1>2. QED
  BY <1>1 DEF Shape

\* A step of file worker w, which puts fw in its place.
LEMMA FileStepShape ==
  ASSUME Shape, NEW a \in Runs, NEW w \in FileWorkers, NEW fw \in FileWorkerState,
         WellPlaced(fw), WorkerGoto(a, w, fw),
         UNCHANGED <<run, phase, awaited, collection, manifest>>,
         nextFile' \in [Runs -> 1 .. NumFiles + 1],
         files' \in [Runs -> SUBSET Files],
         active' \in [Runs -> SUBSET SUBSET Chunk],
         batch' \in [Runs -> SUBSET Chunk],
         \A b \in Runs : IsFiniteSet(batch'[b]) /\ Cardinality(batch'[b]) < BatchSize
  PROVE  Shape'
<1>1. /\ fileWorker' \in [Runs -> [FileWorkers -> FileWorkerState]]
      /\ \A b \in Runs, v \in FileWorkers : WellPlaced(fileWorker'[b][v])
  BY WorkerGotoShape
<1>2. TypeOK'
  BY <1>1 DEF Shape, TypeOK, FileWorkerState
<1>3. QED
  BY <1>1, <1>2 DEF Shape

LEMMA BatchesKept ==
  ASSUME Shape
  PROVE  \A b \in Runs : IsFiniteSet(batch[b]) /\ Cardinality(batch[b]) < BatchSize
  BY DEF Shape

LEMMA EmptyBatch ==
  ASSUME Shape, NEW a \in Runs, batch' = [batch EXCEPT ![a] = {}]
  PROVE  /\ batch' \in [Runs -> SUBSET Chunk]
         /\ \A b \in Runs : batch'[b] = IF b = a THEN {} ELSE batch[b]
         /\ \A b \in Runs : IsFiniteSet(batch'[b]) /\ Cardinality(batch'[b]) < BatchSize
<1>1. batch' \in [Runs -> SUBSET Chunk] /\ \A b \in Runs : batch'[b] = IF b = a THEN {} ELSE batch[b]
  BY DEF Shape, TypeOK
<1>2. IsFiniteSet({}) /\ Cardinality({}) < BatchSize
  BY FS_EmptySet, Constant
<1>3. QED
  BY <1>1, <1>2, BatchesKept

LEMMA SetupShape ==
  ASSUME Shape, NEW a \in Runs,
         DropPoints(a) \/ DropCollection(a) \/ CreateCollection(a) \/ StoreThrows(a)
           \/ SaveManifest(a)
  PROVE  Shape'
<1>1. UNCHANGED <<run, nextFile, fileWorker, files, batch, active, awaited>>
  BY DEF DropPoints, DropCollection, CreateCollection, StoreThrows, SaveManifest, Setup
<1>2. \E p \in Phases : Goto(a, p)
  BY DEF DropPoints, DropCollection, CreateCollection, StoreThrows, SaveManifest, Phases
<1>3. collection' \in [exists : BOOLEAN, points : SUBSET ({ShaOf[b] : b \in Runs} \X Chunk)]
  <2>1. collection \in [exists : BOOLEAN, points : SUBSET ({ShaOf[b] : b \in Runs} \X Chunk)]
    BY DEF Shape, TypeOK
  <2>2. \/ collection' = [collection EXCEPT !.points = {}]
        \/ \E e \in BOOLEAN : collection' = [collection EXCEPT !.exists = e]
        \/ collection' = collection
    BY DEF DropPoints, DropCollection, CreateCollection, StoreThrows, SaveManifest
  <2>3. QED
    BY <2>1, <2>2
<1>4. manifest' \in [sha : {ShaOf[b] : b \in Runs} \cup {0}, files : SUBSET Files]
  <2>1. /\ manifest \in [sha : {ShaOf[b] : b \in Runs} \cup {0}, files : SUBSET Files]
        /\ files[a] \in SUBSET Files
    BY DEF Shape, TypeOK
  <2>2. manifest' = manifest \/ manifest' = [sha |-> ShaOf[a], files |-> files[a]]
    BY DEF DropPoints, DropCollection, CreateCollection, StoreThrows, SaveManifest
  <2>3. QED
    BY <2>1, <2>2
<1>5. phase' \in [Runs -> Phases]
  BY <1>2, GotoShape
<1>6. QED
  BY <1>1, <1>3, <1>4, <1>5, KeptShape DEF Shape, TypeOK

LEMMA TakeFileShape ==
  ASSUME Shape, NEW a \in Runs, NEW w \in FileWorkers, TakeFile(a, w)
  PROVE  Shape'
<1>1. nextFile \in [Runs -> 1 .. NumFiles + 1] /\ nextFile[a] \in 1 .. NumFiles + 1
  BY DEF Shape, TypeOK
<1>2. CASE nextFile[a] <= NumFiles
  <2>1. nextFile[a] \in Files /\ nextFile[a] + 1 \in 1 .. NumFiles + 1
    BY <1>1, <1>2, Constant DEF Files
  <2>2. nextFile' \in [Runs -> 1 .. NumFiles + 1]
    BY <1>1, <1>2, <2>1 DEF TakeFile
  <2>3. /\ At("read", nextFile[a], 1) \in FileWorkerState
        /\ WellPlaced(At("read", nextFile[a], 1))
    BY <2>1, AtShape DEF WorkerSteps
  <2>4. QED
    BY <1>2, <2>2, <2>3, FileStepShape, BatchesKept DEF TakeFile, FileStep, Shape, TypeOK
<1>3. CASE ~ (nextFile[a] <= NumFiles)
  <2>1. At("end", 0, 0) \in FileWorkerState /\ WellPlaced(At("end", 0, 0))
    BY AtShape DEF WorkerSteps
  <2>2. QED
    BY <1>3, <2>1, FileStepShape, BatchesKept DEF TakeFile, FileStep, Shape, TypeOK
<1>4. QED
  BY <1>2, <1>3

LEMMA ReadFileShape ==
  ASSUME Shape, NEW a \in Runs, NEW w \in FileWorkers, ReadFile(a, w)
  PROVE  Shape'
<1> DEFINE f == fileWorker[a][w].file
<1>1. f \in Files /\ f \in Nat
  BY WorkerShape, Constant DEF WellPlaced, ReadFile, FileStep
<1>2. /\ At("next", f, 0) \in FileWorkerState /\ WellPlaced(At("next", f, 0))
      /\ At("add", f, 1) \in FileWorkerState /\ WellPlaced(At("add", f, 1))
  BY <1>1, AtShape DEF WorkerSteps
<1>3. files' \in [Runs -> SUBSET Files]
  <2>1. files' = files \/ files' = [files EXCEPT ![a] = @ \cup {f}]
    BY DEF ReadFile
  <2>2. files \in [Runs -> SUBSET Files] /\ files[a] \cup {f} \in SUBSET Files
    BY <1>1 DEF Shape, TypeOK
  <2>3. QED
    BY <2>1, <2>2
<1>4. /\ UNCHANGED <<run, phase, awaited, collection, manifest, nextFile, batch, active>>
      /\ \E fw \in {At("next", f, 0), At("add", f, 1)} : WorkerGoto(a, w, fw)
  BY DEF ReadFile, FileStep
<1>5. QED
  BY <1>2, <1>3, <1>4, FileStepShape, BatchesKept DEF Shape, TypeOK

LEMMA FileThrowsShape ==
  ASSUME Shape, NEW a \in Runs, NEW w \in FileWorkers, FileThrows(a, w)
  PROVE  Shape'
<1>1. At("threw", 0, 0) \in FileWorkerState /\ WellPlaced(At("threw", 0, 0))
  BY AtShape DEF WorkerSteps
<1>2. QED
  BY <1>1, FileStepShape, BatchesKept DEF FileThrows, FileStep, Shape, TypeOK

LEMMA AddLastStepShape ==
  ASSUME Shape, NEW a \in Runs, NEW w \in FileWorkers, AddLast(a, w)
  PROVE  Shape'
<1> DEFINE f == fileWorker[a][w].file
           next == batch[a] \cup InHand(a, w)
<1>1. At("next", f, 0) \in FileWorkerState /\ WellPlaced(At("next", f, 0))
  <2>1. f \in Files \cup {0}
    BY WorkerShape DEF FileWorkerState
  <2>2. QED
    BY <2>1, AtShape DEF WorkerSteps
<1>2. next \subseteq Chunk /\ IsFiniteSet(next) /\ Cardinality(next) < BatchSize
  BY AddLastShape DEF AddLast
<1>3. batch' = [batch EXCEPT ![a] = next]
  BY DEF AddLast
<1> HIDE DEF next
<1>4. batch' \in [Runs -> SUBSET Chunk] /\ \A b \in Runs : batch'[b] = IF b = a THEN next ELSE batch[b]
  BY <1>2, <1>3 DEF Shape, TypeOK
<1>5. \A b \in Runs : IsFiniteSet(batch'[b]) /\ Cardinality(batch'[b]) < BatchSize
  BY <1>2, <1>4, BatchesKept
<1>6. /\ UNCHANGED <<run, phase, awaited, collection, manifest, nextFile, files, active>>
      /\ WorkerGoto(a, w, At("next", f, 0))
  BY DEF AddLast, FileStep
<1>7. QED
  BY <1>1, <1>4, <1>5, <1>6, FileStepShape DEF Shape, TypeOK

\* AddFull in terms of FullBatch.
LEMMA AddFullFacts ==
  ASSUME Shape, NEW a \in Runs, NEW w \in FileWorkers, AddFull(a, w)
  PROVE  LET f == fileWorker[a][w].file IN
         /\ fileWorker[a][w].pc = "add" /\ phase[a] \in {"files", "failed"}
         /\ Upto(a, w) <= ChunkCount[f] + 1
         /\ UNCHANGED <<run, phase, awaited, collection, manifest, nextFile, files>>
         /\ batch' = [batch EXCEPT ![a] = {}]
         /\ active' = [active EXCEPT ![a] = @ \cup {FullBatch(a, w)}]
         /\ \/ /\ Cardinality(active'[a]) >= EmbeddingConcurrency
               /\ WorkerGoto(a, w, Waiter(f, Upto(a, w), active'[a]))
            \/ /\ ~ (Cardinality(active'[a]) >= EmbeddingConcurrency)
               /\ WorkerGoto(a, w, At("add", f, Upto(a, w)))
  BY DEF AddFull, FileStep, Upto, FullBatch

LEMMA AddFullShape ==
  ASSUME Shape, NEW a \in Runs, NEW w \in FileWorkers, AddFull(a, w)
  PROVE  Shape'
<1> DEFINE f == fileWorker[a][w].file
           u == Upto(a, w)
<1>1. f \in Files /\ u \in Nat \ {0} /\ FullBatch(a, w) \subseteq Chunk
  <2>1. fileWorker[a][w].chunk \in Nat
    BY WorkerShape DEF FileWorkerState
  <2>2. f \in Files /\ u \in Nat /\ u > fileWorker[a][w].chunk /\ FullBatch(a, w) \subseteq Chunk
    BY AddFullFacts, FullBatchShape
  <2> HIDE DEF u
  <2>3. QED
    BY <2>1, <2>2
<1>2. active' \in [Runs -> SUBSET SUBSET Chunk] /\ active'[a] \in SUBSET SUBSET Chunk
  <2>1. active \in [Runs -> SUBSET SUBSET Chunk]
    BY DEF Shape, TypeOK
  <2>2. active' = [active EXCEPT ![a] = @ \cup {FullBatch(a, w)}]
    BY AddFullFacts
  <2>3. active[a] \cup {FullBatch(a, w)} \in SUBSET SUBSET Chunk
    BY <1>1, <2>1
  <2>4. QED
    BY <2>1, <2>2, <2>3
<1> HIDE DEF f, u
<1>3. /\ Waiter(f, u, active'[a]) \in FileWorkerState /\ WellPlaced(Waiter(f, u, active'[a]))
      /\ At("add", f, u) \in FileWorkerState /\ WellPlaced(At("add", f, u))
  <2>1. u >= 1 /\ f \in Files \cup {0} /\ "add" \in WorkerSteps
    BY <1>1 DEF WorkerSteps
  <2>2. QED
    BY <1>1, <1>2, <2>1, AtShape, WaiterShape
<1>4. \E fw \in {Waiter(f, u, active'[a]), At("add", f, u)} : WorkerGoto(a, w, fw)
  BY AddFullFacts DEF f, u
<1>5. /\ batch' \in [Runs -> SUBSET Chunk]
      /\ \A b \in Runs : IsFiniteSet(batch'[b]) /\ Cardinality(batch'[b]) < BatchSize
  BY AddFullFacts, EmptyBatch
<1>6. UNCHANGED <<run, phase, awaited, collection, manifest, nextFile, files>>
  BY AddFullFacts
<1>7. QED
  BY <1>2, <1>3, <1>4, <1>5, <1>6, FileStepShape DEF Shape, TypeOK

LEMMA UpsertedShape ==
  ASSUME Shape, NEW a \in Runs, NEW t \in active[a], NEW ok \in BOOLEAN, Settle(a, t, ok),
         collection' = collection
           \/ collection' = [collection EXCEPT !.points = @ \cup Points(a, t)]
  PROVE  Shape'
<1>1. t \subseteq Chunk
  BY DEF Shape, TypeOK
<1>2. Points(a, t) \subseteq {ShaOf[b] : b \in Runs} \X Chunk
  BY <1>1 DEF Points, Point
<1>3. collection' \in [exists : BOOLEAN, points : SUBSET ({ShaOf[b] : b \in Runs} \X Chunk)]
  <2>1. collection \in [exists : BOOLEAN, points : SUBSET ({ShaOf[b] : b \in Runs} \X Chunk)]
    BY DEF Shape, TypeOK
  <2>2. QED
    BY <1>2, <2>1
<1>4. TypeOK'
  BY <1>3, SettleShape DEF Shape, TypeOK, FileWorkerState
<1>5. \A b \in Runs : IsFiniteSet(batch'[b]) /\ Cardinality(batch'[b]) < BatchSize
  BY SettleShape, BatchesKept
<1>6. QED
  BY <1>4, <1>5, SettleShape DEF Shape

LEMMA FlushShape ==
  ASSUME Shape, NEW a \in Runs, Flush(a)
  PROVE  Shape'
<1> DEFINE all == active[a] \cup (IF batch[a] = {} THEN {} ELSE {batch[a]})
<1>1. active \in [Runs -> SUBSET SUBSET Chunk] /\ awaited \in [Runs -> SUBSET SUBSET Chunk]
  BY DEF Shape, TypeOK
<1>2. all \in SUBSET SUBSET Chunk
  BY DEF Shape, TypeOK
<1>3. active' = [active EXCEPT ![a] = all] /\ awaited' = [awaited EXCEPT ![a] = all]
  BY DEF Flush
<1> HIDE DEF all
<1>4. active' \in [Runs -> SUBSET SUBSET Chunk] /\ awaited' \in [Runs -> SUBSET SUBSET Chunk]
  BY <1>1, <1>2, <1>3
<1>5. \E p \in {"save", "last", "await"} : Goto(a, p)
  BY DEF Flush
<1>6. phase' \in [Runs -> Phases]
  BY <1>5, GotoShape DEF Phases
<1>7. /\ batch' \in [Runs -> SUBSET Chunk]
      /\ \A b \in Runs : IsFiniteSet(batch'[b]) /\ Cardinality(batch'[b]) < BatchSize
  BY EmptyBatch DEF Flush
<1>8. UNCHANGED <<run, nextFile, fileWorker, files, collection, manifest>>
  BY DEF Flush
<1>9. TypeOK'
  BY <1>4, <1>6, <1>7, <1>8 DEF Shape, TypeOK
<1>10. QED
  BY <1>7, <1>8, <1>9 DEF Shape

LEMMA RunFailsShape ==
  ASSUME Shape, NEW a \in Runs, RunFails(a)
  PROVE  Shape'
  BY GotoShape, KeptShape DEF RunFails, Shape, TypeOK, Phases

LEMMA NextRunShape ==
  ASSUME Shape, NextRun
  PROVE  Shape'
<1>1. run + 1 \in Runs
  BY Constant DEF NextRun, Shape, TypeOK, Runs
<1>2. phase' \in [Runs -> Phases]
  BY <1>1, GotoShape DEF NextRun, Phases
<1>3. QED
  BY <1>1, <1>2, KeptShape DEF NextRun, Shape, TypeOK

LEMMA CrashShape ==
  ASSUME Shape, Crash
  PROVE  Shape'
<1>1. At("end", 0, 0) \in FileWorkerState /\ WellPlaced(At("end", 0, 0))
  BY AtShape DEF WorkerSteps
<1>2. fileWorker \in [Runs -> [FileWorkers -> FileWorkerState]]
  BY DEF Shape, TypeOK, FileWorkerState
<1>3. fileWorker' = [a \in Runs |-> [w \in FileWorkers |->
                       IF a <= run THEN At("end", 0, 0) ELSE fileWorker[a][w]]]
  BY DEF Crash
<1>4. fileWorker' \in [Runs -> [FileWorkers -> FileWorkerState]]
  BY <1>1, <1>2, <1>3
<1>5. \A a \in Runs, w \in FileWorkers : WellPlaced(fileWorker'[a][w])
  BY <1>1, <1>3 DEF Shape
<1>6. phase' \in [Runs -> Phases]
  BY GotoShape DEF Crash, Phases, Shape, TypeOK
<1>7. /\ batch' \in [Runs -> SUBSET Chunk] /\ active' \in [Runs -> SUBSET SUBSET Chunk]
      /\ awaited' \in [Runs -> SUBSET SUBSET Chunk]
  BY DEF Crash
<1>8. \A a \in Runs : IsFiniteSet(batch'[a]) /\ Cardinality(batch'[a]) < BatchSize
  <2>1. \A a \in Runs : batch'[a] = {}
    BY DEF Crash
  <2>2. QED
    BY <2>1, FS_EmptySet, Constant
<1>9. UNCHANGED <<run, nextFile, files, collection, manifest>>
  BY DEF Crash
<1>10. TypeOK'
  BY <1>4, <1>6, <1>7, <1>9 DEF Shape, TypeOK, FileWorkerState
<1>11. QED
  BY <1>5, <1>8, <1>10 DEF Shape

LEMMA ShapeStep == Shape /\ [Next]_vars => Shape'
<1> SUFFICES ASSUME Shape, [Next]_vars PROVE Shape'
  OBVIOUS
<1>1. CASE NextRun
  BY <1>1, NextRunShape
<1>2. CASE Crash
  BY <1>2, CrashShape
<1>3. ASSUME NEW a \in Runs, Work(a) PROVE Shape'
  <2>1. CASE DropPoints(a) \/ DropCollection(a) \/ CreateCollection(a) \/ StoreThrows(a)
               \/ SaveManifest(a)
    BY <2>1, SetupShape
  <2>2. ASSUME NEW w \in FileWorkers,
               TakeFile(a, w) \/ ReadFile(a, w) \/ FileThrows(a, w) \/ AddLast(a, w)
                 \/ AddFull(a, w)
        PROVE  Shape'
    BY <2>2, TakeFileShape, ReadFileShape, FileThrowsShape, AddLastStepShape, AddFullShape
  <2>3. ASSUME NEW t \in active[a], Upserted(a, t) \/ BatchThrows(a, t) PROVE Shape'
    <3>1. /\ \E ok \in BOOLEAN : Settle(a, t, ok)
          /\ \/ collection' = collection
             \/ collection' = [collection EXCEPT !.points = @ \cup Points(a, t)]
      BY <2>3 DEF Upserted, BatchThrows
    <3>2. QED
      BY <3>1, UpsertedShape
  <2>4. CASE Flush(a)
    BY <2>4, FlushShape
  <2>5. CASE RunFails(a)
    BY <2>5, RunFailsShape
  <2>6. QED
    BY <1>3, <2>1, <2>2, <2>3, <2>4, <2>5 DEF Work
<1>4. CASE UNCHANGED vars
  BY <1>4 DEF vars, Shape, TypeOK
<1>5. QED
  BY <1>1, <1>2, <1>3, <1>4 DEF Next

LEMMA ShapeAlways == Spec => []Shape
  BY ShapeInit, ShapeStep, PTL DEF Spec

\* Every variable keeps its shape, and with it every batch its bound: no file
\* index passes the last file and no batch is larger than embeddingBatchSize.
THEOREM TypeCorrect == Spec => []TypeOK
<1>1. Shape => TypeOK
  BY DEF Shape
<1>2. QED
  BY <1>1, ShapeAlways, PTL

-----------------------------------------------------------------------------
(* Every chunk is in one place.                                            *)

Busy(fw) == fw.pc \in {"read", "add", "wait"}

\* The chunks of its file that a worker has not put into a batch yet.
Ahead(fw) ==
  IF fw.pc = "read" THEN ChunksOf(fw.file)
  ELSE IF fw.pc \in {"add", "wait"} THEN {c \in ChunksOf(fw.file) : c[2] >= fw.chunk} ELSE {}

Scheduled(a) == batch[a] \cup UNION active[a]

\* A file is taken once, and what is scheduled is behind the workers.
FilesApart ==
  \A a \in Runs :
    /\ \A v, w \in FileWorkers : v # w /\ Busy(fileWorker[a][v])
                                   => fileWorker[a][v].file # fileWorker[a][w].file
    /\ \A w \in FileWorkers : fileWorker[a][w].file < nextFile[a]
    /\ \A c \in Scheduled(a) : c[1] < nextFile[a]
    /\ \A w \in FileWorkers : \A c \in Scheduled(a) : c \notin Ahead(fileWorker[a][w])

BatchesApart ==
  \A a \in Runs :
    /\ \A t \in active[a] : t \cap batch[a] = {} /\ t # {} /\ Cardinality(t) <= BatchSize
    /\ \A t, u \in active[a] : t # u => t \cap u = {}

LEMMA AheadShape ==
  ASSUME NEW fw \in FileWorkerState, WellPlaced(fw)
  PROVE  \A c \in Ahead(fw) : Busy(fw) /\ fw.file \in Files /\ c[1] = fw.file /\ c \in Chunk
<1>1. CASE Busy(fw)
  <2>1. fw.file \in Files
    BY <1>1 DEF Busy, WellPlaced
  <2>2. Ahead(fw) \subseteq ChunksOf(fw.file)
    BY DEF Ahead
  <2>3. QED
    BY <1>1, <2>1, <2>2, ChunkShape
<1>2. CASE ~ Busy(fw)
  BY <1>2 DEF Busy, Ahead
<1>3. QED
  BY <1>1, <1>2

LEMMA InHandAhead ==
  \A a \in Runs, w \in FileWorkers : InHand(a, w) \subseteq Ahead(fileWorker[a][w])
  BY DEF InHand, Ahead

\* A worker goes on with the file it has; what it puts into a batch leaves its hands.
LEMMA WorkerMoves ==
  ASSUME Shape, FilesApart, NEW a \in Runs, NEW w \in FileWorkers,
         NEW fw \in FileWorkerState, WellPlaced(fw), WorkerGoto(a, w, fw),
         Busy(fw) => Busy(fileWorker[a][w]) /\ fw.file = fileWorker[a][w].file,
         fw.file \in {0, fileWorker[a][w].file},
         Ahead(fw) \subseteq Ahead(fileWorker[a][w]),
         nextFile' = nextFile,
         \A b \in Runs : b # a => Scheduled(b)' = Scheduled(b),
         \A c \in Scheduled(a)' : \/ c \in Scheduled(a)
                                  \/ c \in Ahead(fileWorker[a][w]) \ Ahead(fw)
  PROVE  FilesApart'
<1> DEFINE old == fileWorker[a][w]
<1>1. \A b \in Runs, v \in FileWorkers :
        fileWorker'[b][v] = IF b = a /\ v = w THEN fw ELSE fileWorker[b][v]
  BY WorkerGotoShape
<1>2. ASSUME NEW b \in Runs, b # a
      PROVE  /\ \A u, v \in FileWorkers : u # v /\ Busy(fileWorker'[b][u])
                                           => fileWorker'[b][u].file # fileWorker'[b][v].file
             /\ \A v \in FileWorkers : fileWorker'[b][v].file < nextFile'[b]
             /\ \A c \in Scheduled(b)' : c[1] < nextFile'[b]
             /\ \A v \in FileWorkers : \A c \in Scheduled(b)' : c \notin Ahead(fileWorker'[b][v])
  <2>1. \A v \in FileWorkers : fileWorker'[b][v] = fileWorker[b][v]
    BY <1>1, <1>2
  <2>2. Scheduled(b)' = Scheduled(b)
    BY <1>2
  <2>3. QED
    BY <2>1, <2>2 DEF FilesApart
<1>3. /\ old \in FileWorkerState /\ WellPlaced(old)
      /\ nextFile[a] \in 1 .. NumFiles + 1
      /\ \A v \in FileWorkers : fileWorker[a][v] \in FileWorkerState /\ WellPlaced(fileWorker[a][v])
  BY WorkerShape DEF Shape, TypeOK
<1>4. \A u, v \in FileWorkers : u # v /\ Busy(fileWorker'[a][u])
                                  => fileWorker'[a][u].file # fileWorker'[a][v].file
  <2> SUFFICES ASSUME NEW u \in FileWorkers, NEW v \in FileWorkers, u # v,
                      Busy(fileWorker'[a][u])
               PROVE  fileWorker'[a][u].file # fileWorker'[a][v].file
    OBVIOUS
  <2>1. CASE u = w
    BY <1>1, <2>1 DEF FilesApart
  <2>2. CASE v = w
    <3>1. fileWorker'[a][u] = fileWorker[a][u] /\ fileWorker'[a][v] = fw /\ Busy(fileWorker[a][u])
      BY <1>1, <2>2
    <3>2. fileWorker[a][u].file # 0
      BY <1>3, <3>1, Constant DEF Busy, WellPlaced
    <3>3. fileWorker[a][u].file # old.file
      BY <2>2, <3>1 DEF FilesApart
    <3>4. QED
      BY <3>1, <3>2, <3>3
  <2>3. CASE u # w /\ v # w
    BY <1>1, <2>3 DEF FilesApart
  <2>4. QED
    BY <2>1, <2>2, <2>3
<1>5. \A v \in FileWorkers : fileWorker'[a][v].file < nextFile'[a]
  <2>1. 0 < nextFile[a]
    BY <1>3, Constant
  <2>2. QED
    BY <1>1, <2>1 DEF FilesApart
<1>6. \A c \in Scheduled(a)' : c[1] < nextFile'[a]
  <2>1. \A c \in Ahead(old) : c[1] = old.file
    BY <1>3, AheadShape
  <2>2. QED
    BY <2>1 DEF FilesApart
<1>7. \A v \in FileWorkers : \A c \in Scheduled(a)' : c \notin Ahead(fileWorker'[a][v])
  <2> SUFFICES ASSUME NEW v \in FileWorkers, NEW c \in Scheduled(a)',
                      c \in Ahead(fileWorker'[a][v])
               PROVE  FALSE
    OBVIOUS
  <2>1. CASE v = w
    BY <1>1, <2>1 DEF FilesApart
  <2>2. CASE v # w
    <3>1. fileWorker'[a][v] = fileWorker[a][v]
      BY <1>1, <2>2
    <3>2. c \in Ahead(old)
      BY <3>1 DEF FilesApart
    <3>3. c[1] = old.file /\ Busy(fileWorker[a][v]) /\ c[1] = fileWorker[a][v].file
      BY <1>3, <3>1, <3>2, AheadShape
    <3>4. QED
      BY <2>2, <3>3 DEF FilesApart
  <2>3. QED
    BY <2>1, <2>2
<1>8. QED
  <2>1. \A b \in Runs :
    /\ \A u, v \in FileWorkers : u # v /\ Busy(fileWorker'[b][u])
                                   => fileWorker'[b][u].file # fileWorker'[b][v].file
    /\ \A v \in FileWorkers : fileWorker'[b][v].file < nextFile'[b]
    /\ \A c \in Scheduled(b)' : c[1] < nextFile'[b]
    /\ \A v \in FileWorkers : \A c \in Scheduled(b)' : c \notin Ahead(fileWorker'[b][v])
    BY <1>2, <1>4, <1>5, <1>6, <1>7
  <2>2. QED
    BY <2>1 DEF FilesApart

\* Steps that move no file worker and schedule nothing new.
LEMMA FilesApartKept ==
  ASSUME FilesApart, UNCHANGED <<nextFile, fileWorker>>,
         \A a \in Runs : Scheduled(a)' \subseteq Scheduled(a)
  PROVE  FilesApart'
  BY DEF FilesApart

LEMMA ScheduledKept ==
  UNCHANGED <<batch, active>> => \A a \in Runs : Scheduled(a)' = Scheduled(a)
  BY DEF Scheduled

LEMMA BatchesApartKept ==
  ASSUME BatchesApart, UNCHANGED <<batch, active>>
  PROVE  BatchesApart'
  BY DEF BatchesApart

LEMMA TakeFileApart ==
  ASSUME Shape, FilesApart, NEW a \in Runs, NEW w \in FileWorkers, TakeFile(a, w)
  PROVE  FilesApart'
<1> DEFINE n == nextFile[a]
<1>1. /\ fileWorker[a][w].pc = "next" /\ UNCHANGED <<batch, active>>
      /\ nextFile \in [Runs -> 1 .. NumFiles + 1] /\ n \in 1 .. NumFiles + 1
  BY DEF TakeFile, FileStep, Shape, TypeOK
<1>2. \A b \in Runs : Scheduled(b)' = Scheduled(b)
  BY <1>1, ScheduledKept
<1>3. CASE nextFile[a] <= NumFiles
  <2> DEFINE fw == At("read", n, 1)
  <2>1. n \in Files /\ n \in Nat
    BY <1>1, <1>3, Constant DEF Files
  <2>2. fw \in FileWorkerState /\ WellPlaced(fw)
    BY <2>1, AtShape DEF WorkerSteps
  <2>3. WorkerGoto(a, w, fw) /\ nextFile' = [nextFile EXCEPT ![a] = n + 1]
    BY <1>3 DEF TakeFile
  <2>4. \A b \in Runs, v \in FileWorkers :
          fileWorker'[b][v] = IF b = a /\ v = w THEN fw ELSE fileWorker[b][v]
    BY <2>2, <2>3, WorkerGotoShape
  <2>5. \A b \in Runs : nextFile'[b] = IF b = a THEN n + 1 ELSE nextFile[b]
    BY <1>1, <2>3
  <2>6. fw.file = n /\ \A c \in Ahead(fw) : c[1] = n
    BY <2>2, AheadShape DEF At
  <2> HIDE DEF fw
  <2>7. \A v \in FileWorkers : fileWorker[a][v].file \in Nat /\ fileWorker[a][v].file < n
    BY WorkerShape, Constant DEF FilesApart, FileWorkerState
  <2>8. \A c \in Scheduled(a) : c[1] < n
    BY DEF FilesApart
  <2>9. \A c \in Scheduled(a) : c[1] \in Nat
    <3>1. Scheduled(a) \subseteq Chunk
      BY DEF Scheduled, Shape, TypeOK
    <3>2. \A c \in Chunk : c[1] \in Nat
      BY ChunkShape, Constant DEF Chunk
    <3>3. QED
      BY <3>1, <3>2
  <2>10. ASSUME NEW b \in Runs
         PROVE  /\ \A u, v \in FileWorkers : u # v /\ Busy(fileWorker'[b][u])
                     => fileWorker'[b][u].file # fileWorker'[b][v].file
                /\ \A v \in FileWorkers : fileWorker'[b][v].file < nextFile'[b]
                /\ \A c \in Scheduled(b)' : c[1] < nextFile'[b]
                /\ \A v \in FileWorkers : \A c \in Scheduled(b)' : c \notin Ahead(fileWorker'[b][v])
    <3> HIDE DEF n
    <3>1. CASE b # a
      <4>1. /\ \A v \in FileWorkers : fileWorker'[b][v] = fileWorker[b][v]
            /\ nextFile'[b] = nextFile[b] /\ Scheduled(b)' = Scheduled(b)
        BY <1>2, <2>4, <2>5, <3>1
      <4>2. QED
        BY <4>1 DEF FilesApart
    <3>2. CASE b = a
      <4>1. \A u, v \in FileWorkers : u # v /\ Busy(fileWorker'[a][u])
              => fileWorker'[a][u].file # fileWorker'[a][v].file
        BY <2>1, <2>4, <2>6, <2>7 DEF FilesApart
      <4>2. \A v \in FileWorkers : fileWorker'[a][v].file < nextFile'[a]
        BY <2>1, <2>4, <2>5, <2>6, <2>7
      <4>3. \A c \in Scheduled(a)' : c[1] < nextFile'[a]
        BY <1>2, <2>1, <2>5, <2>8, <2>9
      <4>4. \A v \in FileWorkers : \A c \in Scheduled(a)' : c \notin Ahead(fileWorker'[a][v])
        BY <1>2, <2>1, <2>4, <2>6, <2>8, <2>9 DEF FilesApart
      <4>5. QED
        BY <3>2, <4>1, <4>2, <4>3, <4>4
    <3>3. QED
      BY <3>1, <3>2
  <2>11. QED
    BY <2>10 DEF FilesApart
<1>4. CASE ~ (nextFile[a] <= NumFiles)
  <2>1. /\ At("end", 0, 0) \in FileWorkerState /\ WellPlaced(At("end", 0, 0))
        /\ ~ Busy(At("end", 0, 0)) /\ Ahead(At("end", 0, 0)) = {} /\ At("end", 0, 0).file = 0
    BY AtShape DEF WorkerSteps, At, Busy, Ahead
  <2>2. WorkerGoto(a, w, At("end", 0, 0)) /\ UNCHANGED nextFile
    BY <1>4 DEF TakeFile
  <2>3. QED
    BY <1>2, <2>1, <2>2, WorkerMoves
<1>5. QED
  BY <1>3, <1>4

LEMMA ReadFileApart ==
  ASSUME Shape, FilesApart, NEW a \in Runs, NEW w \in FileWorkers, ReadFile(a, w)
  PROVE  FilesApart'
<1> DEFINE f == fileWorker[a][w].file
<1>1. fileWorker[a][w].pc = "read" /\ UNCHANGED <<nextFile, batch, active>>
  BY DEF ReadFile, FileStep
<1>2. \A b \in Runs : Scheduled(b)' = Scheduled(b)
  BY <1>1, ScheduledKept
<1>3. f \in Files /\ f \in Nat
  BY <1>1, WorkerShape, Constant DEF WellPlaced
<1>4. /\ At("next", f, 0) \in FileWorkerState /\ WellPlaced(At("next", f, 0))
      /\ At("add", f, 1) \in FileWorkerState /\ WellPlaced(At("add", f, 1))
  BY <1>3, AtShape DEF WorkerSteps
<1>5. /\ Ahead(At("next", f, 0)) = {} /\ ~ Busy(At("next", f, 0)) /\ At("next", f, 0).file = f
      /\ Ahead(At("add", f, 1)) \subseteq Ahead(fileWorker[a][w])
      /\ At("add", f, 1).file = f /\ Busy(fileWorker[a][w])
  BY <1>1 DEF At, Ahead, Busy
<1>6. \E fw \in {At("next", f, 0), At("add", f, 1)} : WorkerGoto(a, w, fw)
  BY DEF ReadFile
<1>7. QED
  BY <1>1, <1>2, <1>4, <1>5, <1>6, WorkerMoves

LEMMA FileThrowsApart ==
  ASSUME Shape, FilesApart, NEW a \in Runs, NEW w \in FileWorkers, FileThrows(a, w)
  PROVE  FilesApart'
<1>1. /\ At("threw", 0, 0) \in FileWorkerState /\ WellPlaced(At("threw", 0, 0))
      /\ ~ Busy(At("threw", 0, 0)) /\ Ahead(At("threw", 0, 0)) = {} /\ At("threw", 0, 0).file = 0
  BY AtShape DEF WorkerSteps, At, Busy, Ahead
<1>2. WorkerGoto(a, w, At("threw", 0, 0)) /\ UNCHANGED <<nextFile, batch, active>>
  BY DEF FileThrows
<1>3. QED
  BY <1>1, <1>2, ScheduledKept, WorkerMoves

LEMMA BatchChange ==
  ASSUME Shape, NEW a \in Runs, NEW next \in SUBSET Chunk, NEW acts \in SUBSET SUBSET Chunk,
         batch' = [batch EXCEPT ![a] = next], active' = [active EXCEPT ![a] = acts]
  PROVE  /\ batch'[a] = next /\ active'[a] = acts
         /\ \A b \in Runs : b # a => batch'[b] = batch[b] /\ active'[b] = active[b]
         /\ \A b \in Runs : b # a => Scheduled(b)' = Scheduled(b)
         /\ Scheduled(a)' = next \cup UNION acts
  BY DEF Shape, TypeOK, Scheduled

LEMMA AddLastApart ==
  ASSUME Shape, FilesApart, BatchesApart, NEW a \in Runs, NEW w \in FileWorkers, AddLast(a, w)
  PROVE  FilesApart' /\ BatchesApart'
<1> DEFINE f == fileWorker[a][w].file
           fw == At("next", f, 0)
           rest == InHand(a, w)
<1>1. /\ fw \in FileWorkerState /\ WellPlaced(fw)
      /\ ~ Busy(fw) /\ Ahead(fw) = {} /\ fw.file = f
  <2>1. f \in Files \cup {0}
    BY WorkerShape DEF FileWorkerState
  <2>2. QED
    BY <2>1, AtShape DEF WorkerSteps, At, Busy, Ahead
<1>2. WorkerGoto(a, w, fw) /\ UNCHANGED <<nextFile, active>>
  BY DEF AddLast
<1>3. rest \subseteq Ahead(fileWorker[a][w]) /\ rest \subseteq Chunk
  BY InHandAhead, InHandShape
<1>4. /\ batch' = [batch EXCEPT ![a] = batch[a] \cup rest]
      /\ active' = [active EXCEPT ![a] = active[a]]
      /\ batch[a] \cup rest \in SUBSET Chunk /\ active[a] \in SUBSET SUBSET Chunk
  BY <1>2, <1>3 DEF AddLast, Shape, TypeOK
<1> HIDE DEF f, fw, rest
<1>5. /\ batch'[a] = batch[a] \cup rest /\ active'[a] = active[a]
      /\ \A b \in Runs : b # a => batch'[b] = batch[b] /\ active'[b] = active[b]
      /\ \A b \in Runs : b # a => Scheduled(b)' = Scheduled(b)
      /\ Scheduled(a)' = (batch[a] \cup rest) \cup UNION active[a]
  <2> DEFINE next == batch[a] \cup rest
             acts == active[a]
  <2>1. /\ batch' = [batch EXCEPT ![a] = next] /\ active' = [active EXCEPT ![a] = acts]
        /\ next \in SUBSET Chunk /\ acts \in SUBSET SUBSET Chunk
    BY <1>4
  <2> HIDE DEF next, acts
  <2>2. /\ batch'[a] = next /\ active'[a] = acts
        /\ \A b \in Runs : b # a => batch'[b] = batch[b] /\ active'[b] = active[b]
        /\ \A b \in Runs : b # a => Scheduled(b)' = Scheduled(b)
        /\ Scheduled(a)' = next \cup UNION acts
    BY <2>1, BatchChange
  <2>3. QED
    BY <2>2 DEF next, acts
<1>6. FilesApart'
  <2>1. \A c \in Scheduled(a)' : c \in Scheduled(a) \/ c \in Ahead(fileWorker[a][w]) \ Ahead(fw)
    BY <1>1, <1>3, <1>5 DEF Scheduled
  <2>2. fw.file \in {0, fileWorker[a][w].file} /\ Ahead(fw) \subseteq Ahead(fileWorker[a][w])
    BY <1>1 DEF f
  <2>3. QED
    BY <1>1, <1>2, <1>5, <2>1, <2>2, WorkerMoves
<1>7. \A t \in active[a] : t \cap rest = {}
  BY <1>3 DEF FilesApart, Scheduled
<1>8. BatchesApart'
  <2>1. ASSUME NEW b \in Runs
        PROVE  /\ \A t \in active'[b] : t \cap batch'[b] = {} /\ t # {} /\ Cardinality(t) <= BatchSize
               /\ \A t, u \in active'[b] : t # u => t \cap u = {}
    <3>1. CASE b = a
      BY <1>5, <1>7, <3>1 DEF BatchesApart
    <3>2. CASE b # a
      BY <1>5, <3>2 DEF BatchesApart
    <3>3. QED
      BY <3>1, <3>2
  <2>2. QED
    BY <2>1 DEF BatchesApart
<1>9. QED
  BY <1>6, <1>8

LEMMA AddFullApart ==
  ASSUME Shape, FilesApart, BatchesApart, NEW a \in Runs, NEW w \in FileWorkers, AddFull(a, w)
  PROVE  FilesApart' /\ BatchesApart'
<1> DEFINE f == fileWorker[a][w].file
           i == fileWorker[a][w].chunk
           u == Upto(a, w)
           full == FullBatch(a, w)
           acts == active[a] \cup {full}
<1>1. /\ f \in Files /\ i \in Nat /\ u \in Nat \ {0} /\ u > i
      /\ full \subseteq Chunk /\ full # {} /\ Cardinality(full) <= BatchSize
  <2>1. i \in Nat
    BY WorkerShape DEF FileWorkerState
  <2>2. /\ f \in Files /\ u \in Nat /\ u > i
        /\ full \subseteq Chunk /\ full # {} /\ Cardinality(full) <= BatchSize
    BY AddFullFacts, FullBatchShape
  <2> HIDE DEF u, i, full
  <2>3. QED
    BY <2>1, <2>2
<1>2. /\ batch' = [batch EXCEPT ![a] = {}]
      /\ active' = [active EXCEPT ![a] = acts]
      /\ nextFile' = nextFile
  BY AddFullFacts
<1>3. acts \in SUBSET SUBSET Chunk /\ active[a] \in SUBSET SUBSET Chunk
  BY <1>1 DEF Shape, TypeOK
<1>4. full = batch[a] \cup {c \in InHand(a, w) : c[2] < u}
  BY DEF FullBatch
<1>5. fileWorker[a][w].pc = "add"
  BY AddFullFacts
<1>6. \E fw \in {Waiter(f, u, active'[a]), At("add", f, u)} : WorkerGoto(a, w, fw)
  BY AddFullFacts
<1> HIDE DEF u, full
<1>7. /\ batch'[a] = {} /\ active'[a] = acts
      /\ \A b \in Runs : b # a => batch'[b] = batch[b] /\ active'[b] = active[b]
      /\ \A b \in Runs : b # a => Scheduled(b)' = Scheduled(b)
      /\ Scheduled(a)' = {} \cup UNION acts
  <2> HIDE DEF acts
  <2>1. QED
    BY <1>2, <1>3, BatchChange
<1>8. PICK fw \in {Waiter(f, u, active'[a]), At("add", f, u)} : WorkerGoto(a, w, fw)
  BY <1>6
<1>9. /\ fw \in FileWorkerState /\ WellPlaced(fw)
      /\ Busy(fw) /\ fw.file = f /\ Ahead(fw) = {c \in ChunksOf(f) : c[2] >= u}
  <2>1. /\ Waiter(f, u, active'[a]) \in FileWorkerState /\ WellPlaced(Waiter(f, u, active'[a]))
    BY <1>1, <1>3, <1>7, WaiterShape
  <2>2. At("add", f, u) \in FileWorkerState /\ WellPlaced(At("add", f, u))
    <3>1. u >= 1 /\ "add" \in WorkerSteps /\ f \in Files \cup {0}
      BY <1>1 DEF WorkerSteps
    <3>2. QED
      BY <1>1, <3>1, AtShape
  <2>3. /\ At("add", f, u).file = f /\ At("add", f, u).chunk = u /\ At("add", f, u).pc = "add"
        /\ Waiter(f, u, active'[a]).file = f /\ Waiter(f, u, active'[a]).chunk = u
        /\ Waiter(f, u, active'[a]).pc = "wait"
    BY DEF At, Waiter
  <2>4. fw.file = f /\ fw.chunk = u /\ fw.pc \in {"add", "wait"}
    BY <1>8, <2>3
  <2>5. QED
    BY <1>8, <2>1, <2>2, <2>4 DEF Busy, Ahead
<1>10. Ahead(fileWorker[a][w]) = {c \in ChunksOf(f) : c[2] >= i} /\ Busy(fileWorker[a][w])
  BY <1>5 DEF Ahead, Busy
<1>11. \A c \in full : c \in batch[a] \/ c \in Ahead(fileWorker[a][w]) \ Ahead(fw)
  <2> SUFFICES ASSUME NEW c \in InHand(a, w), c[2] < u
               PROVE  c \in Ahead(fileWorker[a][w]) \ Ahead(fw)
    BY <1>4
  <2>1. c \in Ahead(fileWorker[a][w]) /\ c \in ChunksOf(f)
    BY InHandAhead, InHandShape
  <2>2. c[2] \in Nat
    BY <1>1, <2>1, ChunkShape
  <2>3. QED
    BY <1>1, <1>9, <2>1, <2>2
<1>12. Ahead(fw) \subseteq Ahead(fileWorker[a][w])
  <2>1. \A c \in ChunksOf(f) : c[2] \in Nat
    BY <1>1, ChunkShape
  <2> HIDE DEF i
  <2>2. QED
    BY <1>1, <1>9, <1>10, <2>1
<1>13. FilesApart'
  <2>1. \A c \in Scheduled(a)' : c \in Scheduled(a) \/ c \in Ahead(fileWorker[a][w]) \ Ahead(fw)
    BY <1>7, <1>11 DEF Scheduled
  <2>2. QED
    BY <1>2, <1>7, <1>8, <1>9, <1>10, <1>12, <2>1, WorkerMoves
<1>14. \A t \in active[a] : t \cap full = {}
  BY <1>11 DEF FilesApart, BatchesApart, Scheduled
<1>15. BatchesApart'
  <2>1. ASSUME NEW b \in Runs
        PROVE  /\ \A t \in active'[b] : t \cap batch'[b] = {} /\ t # {} /\ Cardinality(t) <= BatchSize
               /\ \A t, s \in active'[b] : t # s => t \cap s = {}
    <3>1. CASE b = a
      BY <1>1, <1>7, <1>14, <3>1 DEF BatchesApart
    <3>2. CASE b # a
      BY <1>7, <3>2 DEF BatchesApart
    <3>3. QED
      BY <3>1, <3>2
  <2>2. QED
    BY <2>1 DEF BatchesApart
<1>16. QED
  BY <1>13, <1>15

\* Workers that only stop or stay, when nothing new is scheduled.
LEMMA WorkersStop ==
  ASSUME Shape, FilesApart, UNCHANGED nextFile,
         \A b \in Runs : Scheduled(b)' \subseteq Scheduled(b),
         \A b \in Runs, v \in FileWorkers :
           /\ fileWorker'[b][v].file \in {0, fileWorker[b][v].file}
           /\ Busy(fileWorker'[b][v]) => /\ Busy(fileWorker[b][v])
                                         /\ fileWorker'[b][v].file = fileWorker[b][v].file
           /\ Ahead(fileWorker'[b][v]) \subseteq Ahead(fileWorker[b][v])
  PROVE  FilesApart'
<1>1. ASSUME NEW b \in Runs
      PROVE  /\ \A u, v \in FileWorkers : u # v /\ Busy(fileWorker'[b][u])
                                           => fileWorker'[b][u].file # fileWorker'[b][v].file
             /\ \A v \in FileWorkers : fileWorker'[b][v].file < nextFile'[b]
             /\ \A c \in Scheduled(b)' : c[1] < nextFile'[b]
             /\ \A v \in FileWorkers : \A c \in Scheduled(b)' : c \notin Ahead(fileWorker'[b][v])
  <2>1. nextFile[b] > 0
    BY Constant DEF Shape, TypeOK
  <2>2. \A u \in FileWorkers : Busy(fileWorker[b][u]) => fileWorker[b][u].file # 0
    BY WorkerShape, Constant DEF Busy, WellPlaced
  <2>3. \A u, v \in FileWorkers : u # v /\ Busy(fileWorker'[b][u])
                                    => fileWorker'[b][u].file # fileWorker'[b][v].file
    BY <2>2 DEF FilesApart
  <2>4. \A v \in FileWorkers : fileWorker'[b][v].file < nextFile'[b]
    BY <2>1 DEF FilesApart
  <2>5. QED
    BY <2>3, <2>4 DEF FilesApart
<1>2. QED
  BY <1>1 DEF FilesApart

LEMMA SettleApart ==
  ASSUME Shape, FilesApart, BatchesApart, NEW a \in Runs, NEW t \in active[a],
         NEW ok \in BOOLEAN, Settle(a, t, ok)
  PROVE  FilesApart' /\ BatchesApart'
<1>1. /\ UNCHANGED <<nextFile, batch>>
      /\ active \in [Runs -> SUBSET SUBSET Chunk]
      /\ active' = [active EXCEPT ![a] = @ \ {t}]
  BY DEF Settle, Shape, TypeOK
<1>2. \A b \in Runs : active'[b] \subseteq active[b] /\ batch'[b] = batch[b]
  BY <1>1
<1>3. \A b \in Runs : Scheduled(b)' \subseteq Scheduled(b)
  BY <1>2 DEF Scheduled
<1>4. \A b \in Runs, v \in FileWorkers :
        LET fw == fileWorker[b][v] IN
        \/ fileWorker'[b][v] = fw
        \/ fw.race # {} /\ fileWorker'[b][v] = At("add", fw.file, fw.chunk)
        \/ fileWorker'[b][v] = At("threw", 0, 0)
  <2>1. fileWorker \in [Runs -> [FileWorkers -> FileWorkerState]]
    BY DEF Shape, TypeOK, FileWorkerState
  <2>2. fileWorker' = [fileWorker EXCEPT ![a] =
          [w \in FileWorkers |->
             LET fw == fileWorker[a][w] IN
             IF t \notin fw.race THEN fw
             ELSE IF ok THEN At("add", fw.file, fw.chunk) ELSE At("threw", 0, 0)]]
    BY DEF Settle
  <2>3. QED
    BY <2>1, <2>2
<1>5. ASSUME NEW b \in Runs, NEW v \in FileWorkers
      PROVE  /\ fileWorker'[b][v].file \in {0, fileWorker[b][v].file}
             /\ Busy(fileWorker'[b][v]) => /\ Busy(fileWorker[b][v])
                                           /\ fileWorker'[b][v].file = fileWorker[b][v].file
             /\ Ahead(fileWorker'[b][v]) \subseteq Ahead(fileWorker[b][v])
  <2>1. CASE fileWorker'[b][v] = fileWorker[b][v]
    BY <2>1
  <2>2. CASE fileWorker'[b][v] = At("threw", 0, 0)
    BY <2>2 DEF At, Busy, Ahead
  <2>3. CASE /\ fileWorker[b][v].race # {}
             /\ fileWorker'[b][v] = At("add", fileWorker[b][v].file, fileWorker[b][v].chunk)
    <3>1. fileWorker[b][v].pc = "wait"
      BY <2>3, WorkerShape DEF WellPlaced
    <3>2. QED
      BY <2>3, <3>1 DEF At, Busy, Ahead
  <2>4. QED
    BY <1>4, <2>1, <2>2, <2>3
<1>6. FilesApart'
  BY <1>1, <1>3, <1>5, WorkersStop
<1>7. BatchesApart'
  BY <1>2 DEF BatchesApart
<1>8. QED
  BY <1>6, <1>7

LEMMA FlushApart ==
  ASSUME Shape, FilesApart, BatchesApart, NEW a \in Runs, Flush(a)
  PROVE  FilesApart' /\ BatchesApart'
<1> DEFINE all == active[a] \cup (IF batch[a] = {} THEN {} ELSE {batch[a]})
<1>1. all \in SUBSET SUBSET Chunk
  BY DEF Shape, TypeOK
<1>2. /\ batch' = [batch EXCEPT ![a] = {}] /\ active' = [active EXCEPT ![a] = all]
      /\ UNCHANGED <<nextFile, fileWorker>>
  BY DEF Flush
<1>3. \A t \in all : t # {} /\ Cardinality(t) <= BatchSize
  <2>1. Cardinality(batch[a]) \in Nat /\ Cardinality(batch[a]) < BatchSize
    BY BatchesKept, FS_CardinalityType
  <2>2. QED
    BY <2>1, Constant DEF BatchesApart
<1>4. \A t, u \in all : t # u => t \cap u = {}
  BY DEF BatchesApart
<1>5. UNION all = Scheduled(a)
  BY DEF Scheduled
<1> HIDE DEF all
<1>6. /\ batch'[a] = {} /\ active'[a] = all
      /\ \A b \in Runs : b # a => batch'[b] = batch[b] /\ active'[b] = active[b]
      /\ \A b \in Runs : b # a => Scheduled(b)' = Scheduled(b)
      /\ Scheduled(a)' = {} \cup UNION all
  BY <1>1, <1>2, BatchChange
<1>7. FilesApart'
  BY <1>2, <1>5, <1>6, FilesApartKept
<1>8. BatchesApart'
  <2>1. ASSUME NEW b \in Runs
        PROVE  /\ \A t \in active'[b] : t \cap batch'[b] = {} /\ t # {} /\ Cardinality(t) <= BatchSize
               /\ \A t, u \in active'[b] : t # u => t \cap u = {}
    <3>1. CASE b = a
      BY <1>3, <1>4, <1>6, <3>1
    <3>2. CASE b # a
      BY <1>6, <3>2 DEF BatchesApart
    <3>3. QED
      BY <3>1, <3>2
  <2>2. QED
    BY <2>1 DEF BatchesApart
<1>9. QED
  BY <1>7, <1>8

LEMMA CrashApart ==
  ASSUME Shape, FilesApart, BatchesApart, Crash
  PROVE  FilesApart' /\ BatchesApart'
<1>1. \A a \in Runs : batch'[a] = {} /\ active'[a] = {}
  BY DEF Crash
<1>2. \A a \in Runs, w \in FileWorkers :
        fileWorker'[a][w] \in {At("end", 0, 0), fileWorker[a][w]}
  BY DEF Crash
<1>3. At("end", 0, 0).file = 0 /\ ~ Busy(At("end", 0, 0)) /\ Ahead(At("end", 0, 0)) = {}
  BY DEF At, Busy, Ahead
<1>4. \A a \in Runs : Scheduled(a)' \subseteq Scheduled(a)
  BY <1>1 DEF Scheduled
<1>5. FilesApart'
  BY <1>2, <1>3, <1>4, WorkersStop DEF Crash
<1>6. BatchesApart'
  BY <1>1 DEF BatchesApart
<1>7. QED
  BY <1>5, <1>6

LEMMA ApartInit == Init => FilesApart /\ BatchesApart
<1> SUFFICES ASSUME Init PROVE FilesApart /\ BatchesApart
  OBVIOUS
<1>1. \A a \in Runs : batch[a] = {} /\ active[a] = {} /\ nextFile[a] = 1
  BY DEF Init
<1>2. \A a \in Runs, w \in FileWorkers :
        fileWorker[a][w].file = 0 /\ ~ Busy(fileWorker[a][w]) /\ Ahead(fileWorker[a][w]) = {}
  BY DEF Init, At, Busy, Ahead
<1>3. \A a \in Runs : Scheduled(a) = {}
  BY <1>1 DEF Scheduled
<1>4. QED
  BY <1>1, <1>2, <1>3 DEF FilesApart, BatchesApart

LEMMA ApartStep == Shape /\ FilesApart /\ BatchesApart /\ [Next]_vars => FilesApart' /\ BatchesApart'
<1> SUFFICES ASSUME Shape, FilesApart, BatchesApart, [Next]_vars
             PROVE  FilesApart' /\ BatchesApart'
  OBVIOUS
<1>1. ASSUME UNCHANGED <<nextFile, fileWorker, batch, active>>
      PROVE  FilesApart' /\ BatchesApart'
  BY <1>1, ScheduledKept, FilesApartKept, BatchesApartKept
<1>2. CASE Crash
  BY <1>2, CrashApart
<1>3. ASSUME NEW a \in Runs, Work(a) PROVE FilesApart' /\ BatchesApart'
  <2>1. CASE DropPoints(a) \/ DropCollection(a) \/ CreateCollection(a) \/ StoreThrows(a)
               \/ RunFails(a) \/ SaveManifest(a)
    BY <1>1, <2>1 DEF DropPoints, DropCollection, CreateCollection, StoreThrows, RunFails,
                      SaveManifest, Setup
  <2>2. ASSUME NEW w \in FileWorkers, TakeFile(a, w) \/ ReadFile(a, w) \/ FileThrows(a, w)
        PROVE  FilesApart' /\ BatchesApart'
    <3>1. UNCHANGED <<batch, active>>
      BY <2>2 DEF TakeFile, ReadFile, FileThrows
    <3>2. QED
      BY <2>2, <3>1, TakeFileApart, ReadFileApart, FileThrowsApart, BatchesApartKept
  <2>3. ASSUME NEW w \in FileWorkers, AddLast(a, w) \/ AddFull(a, w)
        PROVE  FilesApart' /\ BatchesApart'
    BY <2>3, AddLastApart, AddFullApart
  <2>4. ASSUME NEW t \in active[a], Upserted(a, t) \/ BatchThrows(a, t)
        PROVE  FilesApart' /\ BatchesApart'
    <3>1. \E ok \in BOOLEAN : Settle(a, t, ok)
      BY <2>4 DEF Upserted, BatchThrows
    <3>2. QED
      BY <3>1, SettleApart
  <2>5. CASE Flush(a)
    BY <2>5, FlushApart
  <2>6. QED
    BY <1>3, <2>1, <2>2, <2>3, <2>4, <2>5 DEF Work
<1>4. CASE NextRun \/ UNCHANGED vars
  BY <1>1, <1>4 DEF NextRun, vars
<1>5. QED
  BY <1>2, <1>3, <1>4 DEF Next

LEMMA ApartAlways == Spec => [](Shape /\ FilesApart /\ BatchesApart)
<1>1. Init => Shape /\ FilesApart /\ BatchesApart
  BY ShapeInit, ApartInit
<1>2. (Shape /\ FilesApart /\ BatchesApart) /\ [Next]_vars
        => (Shape /\ FilesApart /\ BatchesApart)'
  BY ShapeStep, ApartStep
<1>3. QED
  BY <1>1, <1>2, PTL DEF Spec

\* File workers share currentBatch across their awaits, and yet no chunk is ever
\* in two batches or in a batch and in the hands of a worker, no file is read by
\* two workers, and no batch is empty or larger than embeddingBatchSize.
THEOREM OnePlace == Spec => []ChunksInOnePlace
<1>1. ASSUME Shape, FilesApart, BatchesApart PROVE ChunksInOnePlace
  <2> USE <1>1
  <2>1. ASSUME NEW a \in Runs, NEW S \in Places(a), NEW T \in Places(a), S # T
        PROVE  S \cap T = {}
    <3>1. \A w \in FileWorkers : \A c \in InHand(a, w) :
            /\ c \in Ahead(fileWorker[a][w]) /\ Busy(fileWorker[a][w])
            /\ c[1] = fileWorker[a][w].file
      BY InHandAhead, InHandShape DEF Busy
    <3>2. \A v, w \in FileWorkers : v # w => InHand(a, v) \cap InHand(a, w) = {}
      BY <3>1 DEF FilesApart
    <3>3. \A w \in FileWorkers : InHand(a, w) \cap batch[a] = {}
      BY <3>1 DEF FilesApart, Scheduled
    <3>4. \A w \in FileWorkers, t \in active[a] : InHand(a, w) \cap t = {}
      BY <3>1 DEF FilesApart, Scheduled
    <3>5. QED
      BY <2>1, <3>2, <3>3, <3>4 DEF Places, BatchesApart
  <2>2. \A a \in Runs : Cardinality(batch[a]) < BatchSize
    BY BatchesKept
  <2>3. QED
    BY <2>1, <2>2 DEF ChunksInOnePlace, FilesApart, BatchesApart, Busy
<1>2. QED
  BY <1>1, ApartAlways, PTL

-----------------------------------------------------------------------------
(* The stages of a run.                                                    *)

WithChunks == {f \in Files : ChunkCount[f] > 0}

Fresh(a) ==
  /\ nextFile[a] = 1 /\ files[a] = {} /\ batch[a] = {} /\ active[a] = {}
  /\ \A w \in FileWorkers : fileWorker[a][w] = At("next", 0, 0)

Stages(a) ==
  /\ files[a] \subseteq WithChunks
  /\ phase[a] \in {"queued", "drop", "unlist", "create"} => Fresh(a)
  /\ phase[a] \in {"last", "await"} => awaited[a] = active[a] /\ batch[a] = {}
  /\ phase[a] \in {"save", "done"} => active[a] = {} /\ batch[a] = {}
  /\ phase[a] \notin {"last", "await"} => awaited[a] = {}

\* The runs before the current one are over, those after it have not started.
Ordered ==
  /\ \A a \in Runs : a < run => Ended(a)
  /\ \A a \in Runs : a > run => phase[a] = "queued"
  /\ phase[run] # "queued"
  /\ \A a \in Runs : Stages(a)

\* A step of run a does not touch the other runs.
LEMMA WorkFrame ==
  ASSUME Shape, NEW a \in Runs, Work(a), NEW b \in Runs, b # a
  PROVE  /\ run' = run /\ phase'[b] = phase[b] /\ nextFile'[b] = nextFile[b]
         /\ fileWorker'[b] = fileWorker[b] /\ files'[b] = files[b] /\ batch'[b] = batch[b]
         /\ active'[b] = active[b] /\ awaited'[b] = awaited[b]
<1> USE DEF Goto, WorkerGoto
<1>1. CASE DropPoints(a) \/ DropCollection(a) \/ CreateCollection(a) \/ StoreThrows(a)
             \/ RunFails(a) \/ SaveManifest(a)
  BY <1>1 DEF DropPoints, DropCollection, CreateCollection, StoreThrows, RunFails,
              SaveManifest, Setup, Shape, TypeOK
<1>2. ASSUME NEW w \in FileWorkers,
             TakeFile(a, w) \/ ReadFile(a, w) \/ FileThrows(a, w) \/ AddLast(a, w)
      PROVE  /\ run' = run /\ phase'[b] = phase[b] /\ nextFile'[b] = nextFile[b]
             /\ fileWorker'[b] = fileWorker[b] /\ files'[b] = files[b] /\ batch'[b] = batch[b]
             /\ active'[b] = active[b] /\ awaited'[b] = awaited[b]
  <2>1. UNCHANGED <<run, phase, active, awaited>>
    BY <1>2 DEF TakeFile, ReadFile, FileThrows, AddLast, FileStep
  <2>2. fileWorker'[b] = fileWorker[b]
    BY <1>2 DEF TakeFile, ReadFile, FileThrows, AddLast, Shape, TypeOK
  <2>3. nextFile'[b] = nextFile[b]
    BY <1>2 DEF TakeFile, ReadFile, FileThrows, AddLast, Shape, TypeOK
  <2>4. files'[b] = files[b]
    BY <1>2 DEF TakeFile, ReadFile, FileThrows, AddLast, Shape, TypeOK
  <2>5. batch'[b] = batch[b]
    BY <1>2 DEF TakeFile, ReadFile, FileThrows, AddLast, Shape, TypeOK
  <2>6. QED
    BY <2>1, <2>2, <2>3, <2>4, <2>5
<1>3. ASSUME NEW w \in FileWorkers, AddFull(a, w)
      PROVE  /\ run' = run /\ phase'[b] = phase[b] /\ nextFile'[b] = nextFile[b]
             /\ fileWorker'[b] = fileWorker[b] /\ files'[b] = files[b] /\ batch'[b] = batch[b]
             /\ active'[b] = active[b] /\ awaited'[b] = awaited[b]
  <2>1. /\ UNCHANGED <<run, phase, awaited, nextFile, files>>
        /\ \E fw : fileWorker' = [fileWorker EXCEPT ![a][w] = fw]
        /\ \E next : batch' = [batch EXCEPT ![a] = next]
        /\ \E next : active' = [active EXCEPT ![a] = next]
    BY <1>3, AddFullFacts
  <2>2. QED
    BY <2>1 DEF Shape, TypeOK
<1>4. ASSUME NEW t \in active[a], Upserted(a, t) \/ BatchThrows(a, t)
      PROVE  /\ run' = run /\ phase'[b] = phase[b] /\ nextFile'[b] = nextFile[b]
             /\ fileWorker'[b] = fileWorker[b] /\ files'[b] = files[b] /\ batch'[b] = batch[b]
             /\ active'[b] = active[b] /\ awaited'[b] = awaited[b]
  <2>1. /\ UNCHANGED <<run, nextFile, files, batch>>
        /\ \E fws : fileWorker' = [fileWorker EXCEPT ![a] = fws]
        /\ \E next : active' = [active EXCEPT ![a] = next]
        /\ awaited' = awaited \/ \E next : awaited' = [awaited EXCEPT ![a] = next]
        /\ phase' = phase \/ \E p : phase' = [phase EXCEPT ![a] = p]
    BY <1>4 DEF Upserted, BatchThrows, Settle
  <2>2. QED
    BY <2>1 DEF Shape, TypeOK
<1>5. CASE Flush(a)
  BY <1>5 DEF Flush, Shape, TypeOK
<1>6. QED
  BY <1>1, <1>2, <1>3, <1>4, <1>5 DEF Work

\* If the stages of run a are kept, and it neither starts nor comes back to life,
\* the runs stay ordered.
LEMMA OrderedKept ==
  ASSUME Shape, Ordered, NEW a \in Runs, Work(a), Stages(a)',
         Ended(a) => Ended(a)', phase[a] # "queued" \/ phase'[a] = "queued",
         phase'[a] = "queued" => phase[a] = "queued"
  PROVE  Ordered'
<1>1. run' = run
  <2>1. run \in Runs
    BY DEF Shape, TypeOK
  <2>2. QED
    BY DEF Work, DropPoints, DropCollection, CreateCollection, StoreThrows, RunFails,
           SaveManifest, Setup, TakeFile, ReadFile, FileThrows, AddLast, AddFull, FileStep,
           Upserted, BatchThrows, Settle, Flush
<1>2. \A b \in Runs : b # a => Stages(b)' /\ phase'[b] = phase[b] /\ (Ended(b)' <=> Ended(b))
  BY WorkFrame DEF Ordered, Stages, Fresh, Ended
<1>3. run \in Runs /\ \A b \in Runs : b \in Nat
  BY DEF Shape, TypeOK, Runs
<1>4. QED
  BY <1>1, <1>2, <1>3 DEF Ordered, Ended

LEMMA OrderedInit == Init => Ordered
<1> SUFFICES ASSUME Init PROVE Ordered
  OBVIOUS
<1>1. 1 \in Runs /\ \A a \in Runs : a \in Nat /\ a >= 1
  BY Constant DEF Runs
<1>2. run = 1 /\ \A a \in Runs : phase[a] = IF a = 1 THEN "drop" ELSE "queued"
  BY DEF Init
<1>3. \A a \in Runs : Fresh(a) /\ awaited[a] = {} /\ files[a] = {}
  BY DEF Init, Fresh
<1>4. \A a \in Runs : Stages(a)
  BY <1>2, <1>3 DEF Stages
<1>5. QED
  BY <1>1, <1>2, <1>4 DEF Ordered, Ended

LEMMA NextRunOrdered ==
  ASSUME Shape, Ordered, NextRun
  PROVE  Ordered'
<1>1. /\ run \in Runs /\ run + 1 \in Runs /\ \A a \in Runs : a \in Nat
      /\ phase \in [Runs -> Phases]
  BY Constant DEF Shape, TypeOK, Runs, NextRun
<1>2. /\ run' = run + 1 /\ Ended(run)
      /\ \A a \in Runs : phase'[a] = IF a = run + 1 THEN "drop" ELSE phase[a]
      /\ UNCHANGED <<nextFile, fileWorker, files, batch, active, awaited>>
  BY <1>1 DEF NextRun, Goto
<1>3. phase[run + 1] = "queued"
  BY <1>1 DEF Ordered
<1>4. \A a \in Runs : Stages(a)'
  BY <1>2, <1>3 DEF Ordered, Stages, Fresh
<1>5. \A a \in Runs : a < run' => Ended(a)'
  <2> SUFFICES ASSUME NEW a \in Runs, a < run' PROVE Ended(a)'
    OBVIOUS
  <2>1. a # run + 1 /\ (a < run \/ a = run)
    BY <1>1, <1>2
  <2>2. QED
    BY <1>2, <2>1 DEF Ordered, Ended
<1>6. \A a \in Runs : a > run' => phase'[a] = "queued"
  BY <1>1, <1>2 DEF Ordered
<1>7. QED
  BY <1>1, <1>2, <1>4, <1>5, <1>6 DEF Ordered

LEMMA CrashOrdered ==
  ASSUME Shape, Ordered, Crash
  PROVE  Ordered'
<1>1. /\ run \in Runs /\ \A a \in Runs : a \in Nat
      /\ phase \in [Runs -> Phases]
  BY DEF Shape, TypeOK, Runs
<1>2. /\ run' = run
      /\ \A a \in Runs : phase'[a] = IF a = run THEN "failed" ELSE phase[a]
      /\ UNCHANGED <<nextFile, files>>
      /\ \A a \in Runs : batch'[a] = {} /\ active'[a] = {} /\ awaited'[a] = {}
      /\ \A a \in Runs, w \in FileWorkers : a > run => fileWorker'[a][w] = fileWorker[a][w]
  BY <1>1 DEF Crash, Goto
<1>3. ASSUME NEW a \in Runs PROVE Stages(a)'
  <2>1. CASE a > run
    <3>1. phase[a] = "queued" /\ phase'[a] = "queued"
      BY <1>1, <1>2, <2>1 DEF Ordered
    <3>2. Fresh(a)'
      BY <1>2, <2>1, <3>1 DEF Ordered, Stages, Fresh
    <3>3. QED
      BY <1>2, <3>1, <3>2 DEF Ordered, Stages
  <2>2. CASE ~ (a > run)
    <3>1. phase'[a] \in {"done", "failed"}
      BY <1>1, <1>2, <2>2 DEF Ordered, Ended
    <3>2. QED
      BY <1>2, <3>1 DEF Ordered, Stages
  <2>3. QED
    BY <2>1, <2>2
<1>4. QED
  BY <1>1, <1>2, <1>3 DEF Ordered, Ended

\* resetCollection and the manifest: a run goes from stage to stage.
LEMMA SetupOrdered ==
  ASSUME Shape, Ordered, NEW a \in Runs,
         DropPoints(a) \/ DropCollection(a) \/ CreateCollection(a) \/ StoreThrows(a)
           \/ SaveManifest(a)
  PROVE  Ordered'
<1>1. UNCHANGED <<run, nextFile, fileWorker, files, batch, active, awaited>>
  BY DEF DropPoints, DropCollection, CreateCollection, StoreThrows, SaveManifest, Setup
<1>2. \/ phase[a] = "drop" /\ phase'[a] = "unlist"
      \/ phase[a] = "unlist" /\ phase'[a] = "create"
      \/ phase[a] = "create" /\ phase'[a] = "files"
      \/ phase[a] = "save" /\ phase'[a] = "done"
      \/ phase[a] \in {"drop", "unlist", "create", "save"} /\ phase'[a] = "failed"
  BY DEF DropPoints, DropCollection, CreateCollection, StoreThrows, SaveManifest, Setup,
         Goto, Shape, TypeOK
<1>3. Stages(a)'
  BY <1>1, <1>2 DEF Ordered, Stages, Fresh
<1>4. Work(a)
  BY DEF Work
<1>5. QED
  BY <1>2, <1>3, <1>4, OrderedKept DEF Ended

\* What the file workers do leaves the stage of the run alone.
LEMMA FileStepOrdered ==
  ASSUME Shape, Ordered, NEW a \in Runs, NEW w \in FileWorkers,
         TakeFile(a, w) \/ ReadFile(a, w) \/ FileThrows(a, w) \/ AddLast(a, w) \/ AddFull(a, w)
  PROVE  Ordered'
<1>1. phase[a] \in {"files", "failed"} /\ UNCHANGED <<run, phase, awaited>>
  BY DEF TakeFile, ReadFile, FileThrows, AddLast, AddFull, FileStep
<1>2. files'[a] \subseteq WithChunks
  <2>1. \/ files' = files
        \/ /\ ChunkCount[fileWorker[a][w].file] # 0 /\ fileWorker[a][w].file \in Files
           /\ files' = [files EXCEPT ![a] = @ \cup {fileWorker[a][w].file}]
    BY WorkerShape DEF TakeFile, ReadFile, FileThrows, AddLast, AddFull, FileStep, WellPlaced
  <2>2. CASE files' = files
    BY <2>2 DEF Ordered, Stages
  <2>3. CASE /\ ChunkCount[fileWorker[a][w].file] # 0 /\ fileWorker[a][w].file \in Files
             /\ files' = [files EXCEPT ![a] = @ \cup {fileWorker[a][w].file}]
    <3>1. fileWorker[a][w].file \in WithChunks
      BY <2>3, Constant DEF WithChunks
    <3>2. files'[a] = files[a] \cup {fileWorker[a][w].file}
      BY <2>3 DEF Shape, TypeOK
    <3>3. QED
      BY <3>1, <3>2 DEF Ordered, Stages
  <2>4. QED
    BY <2>1, <2>2, <2>3
<1>3. Stages(a)'
  BY <1>1, <1>2 DEF Ordered, Stages
<1>4. Work(a)
  BY DEF Work
<1>5. QED
  BY <1>1, <1>3, <1>4, OrderedKept DEF Ended

\* What a batch that settles does to the stage of its run.
LEMMA SettleStage ==
  ASSUME Shape, Ordered, NEW a \in Runs, NEW t \in active[a], NEW ok \in BOOLEAN,
         Settle(a, t, ok)
  PROVE  /\ active'[a] = active[a] \ {t}
         /\ \/ phase[a] \notin {"last", "await"} /\ phase' = phase /\ awaited' = awaited
            \/ /\ phase[a] \in {"last", "await"}
               /\ \/ /\ ok /\ awaited'[a] = active[a] \ {t}
                     /\ phase'[a] = IF active[a] = {t} THEN "save" ELSE "await"
                  \/ ~ ok /\ awaited'[a] = {} /\ phase'[a] = "failed"
<1>1. active'[a] = active[a] \ {t}
  BY DEF Settle, Shape, TypeOK
<1>2. CASE phase[a] \in {"last", "await"}
  <2>1. t \in awaited[a]
    BY <1>2 DEF Ordered, Stages
  <2>2. QED
    BY <1>1, <1>2, <2>1 DEF Settle, Goto, Shape, TypeOK
<1>3. CASE phase[a] \notin {"last", "await"}
  <2>1. t \notin awaited[a]
    BY <1>3 DEF Ordered, Stages
  <2>2. QED
    BY <1>1, <1>3, <2>1 DEF Settle
<1>4. QED
  BY <1>2, <1>3

LEMMA SettleOrdered ==
  ASSUME Shape, Ordered, NEW a \in Runs, NEW t \in active[a],
         Upserted(a, t) \/ BatchThrows(a, t)
  PROVE  Ordered'
<1>1. PICK ok \in BOOLEAN : Settle(a, t, ok)
  BY DEF Upserted, BatchThrows
<1>2. \/ phase[a] \notin {"last", "await"} /\ phase' = phase /\ awaited' = awaited
      \/ /\ phase[a] \in {"last", "await"}
         /\ active'[a] = active[a] \ {t}
         /\ \/ /\ awaited'[a] = active[a] \ {t}
               /\ phase'[a] = IF active[a] = {t} THEN "save" ELSE "await"
            \/ awaited'[a] = {} /\ phase'[a] = "failed"
  BY <1>1, SettleStage
<1>3. UNCHANGED <<nextFile, files, batch>>
  BY <1>1 DEF Settle
<1>4. phase[a] \notin {"queued", "drop", "unlist", "create", "save", "done"}
  BY DEF Ordered, Stages, Fresh
<1>5. Stages(a)'
  <2>1. /\ files'[a] \subseteq WithChunks /\ batch'[a] = batch[a]
        /\ phase[a] \in {"last", "await"} => batch[a] = {}
        /\ phase[a] \notin {"last", "await"} => awaited[a] = {}
    BY <1>3 DEF Ordered, Stages
  <2>2. CASE phase[a] \in {"last", "await"}
    <3>1. /\ active'[a] = active[a] \ {t}
          /\ \/ /\ awaited'[a] = active[a] \ {t}
                /\ phase'[a] = IF active[a] = {t} THEN "save" ELSE "await"
             \/ awaited'[a] = {} /\ phase'[a] = "failed"
      BY <1>2, <2>2
    <3>2. QED
      BY <2>1, <2>2, <3>1 DEF Stages
  <2>3. CASE phase[a] \notin {"last", "await"}
    <3>1. phase' = phase /\ awaited' = awaited
      BY <1>2, <2>3
    <3>2. QED
      BY <1>4, <2>1, <2>3, <3>1 DEF Stages
  <2>4. QED
    BY <2>2, <2>3
<1>6. phase'[a] # "queued" /\ (phase[a] = "failed" => phase'[a] = "failed")
  BY <1>2, <1>4
<1>7. Work(a)
  BY DEF Work
<1>8. QED
  BY <1>4, <1>5, <1>6, <1>7, OrderedKept DEF Ended

LEMMA EndOrdered ==
  ASSUME Shape, Ordered, NEW a \in Runs, Flush(a) \/ RunFails(a)
  PROVE  Ordered'
<1> DEFINE all == active[a] \cup (IF batch[a] = {} THEN {} ELSE {batch[a]})
<1>1. phase[a] = "files" /\ UNCHANGED files
  BY DEF Flush, FilesDone, RunFails
<1>2. CASE Flush(a)
  <2>1. batch'[a] = {} /\ active'[a] = all /\ awaited'[a] = all
    BY <1>2 DEF Flush, Shape, TypeOK
  <2>2. phase'[a] \in {"last", "await"} \/ (phase'[a] = "save" /\ all = {})
    BY <1>2 DEF Flush, Goto, Shape, TypeOK
  <2> HIDE DEF all
  <2>3. Stages(a)'
    BY <1>1, <2>1, <2>2 DEF Ordered, Stages
  <2>4. Work(a)
    BY <1>2 DEF Work
  <2>5. QED
    BY <1>1, <2>2, <2>3, <2>4, OrderedKept DEF Ended
<1>3. CASE RunFails(a)
  <2>1. phase'[a] = "failed" /\ UNCHANGED <<batch, active, awaited>>
    BY <1>3 DEF RunFails, Goto, Shape, TypeOK
  <2>2. Stages(a)'
    BY <1>1, <2>1 DEF Ordered, Stages
  <2>3. Work(a)
    BY <1>3 DEF Work
  <2>4. QED
    BY <1>1, <2>1, <2>2, <2>3, OrderedKept DEF Ended
<1>4. QED
  BY <1>2, <1>3

LEMMA OrderedStep == Shape /\ Ordered /\ [Next]_vars => Ordered'
<1> SUFFICES ASSUME Shape, Ordered, [Next]_vars PROVE Ordered'
  OBVIOUS
<1>1. CASE NextRun \/ Crash
  BY <1>1, NextRunOrdered, CrashOrdered
<1>2. ASSUME NEW a \in Runs, Work(a) PROVE Ordered'
  BY <1>2, SetupOrdered, FileStepOrdered, SettleOrdered, EndOrdered DEF Work
<1>3. CASE UNCHANGED vars
  BY <1>3 DEF vars, Ordered, Stages, Fresh, Ended
<1>4. QED
  BY <1>1, <1>2, <1>3 DEF Next

-----------------------------------------------------------------------------
(* Nothing is lost.  Of a run whose file workers have not thrown, every    *)
(* chunk of a file that has been taken is written, scheduled or ahead of a *)
(* worker.                                                                 *)

NoThrow(a) == \A w \in FileWorkers : fileWorker[a][w].pc # "threw"

FilesCovered(a) ==
  /\ \A w \in FileWorkers : fileWorker[a][w].pc = "end" => nextFile[a] = NumFiles + 1
  /\ \A f \in WithChunks : f < nextFile[a] =>
       \/ f \in files[a]
       \/ \E w \in FileWorkers : fileWorker[a][w].pc = "read" /\ fileWorker[a][w].file = f
  /\ \A c \in Chunk : c[1] < nextFile[a] =>
       \/ Point(a, c) \in collection.points
       \/ c \in Scheduled(a)
       \/ \E w \in FileWorkers : c \in Ahead(fileWorker[a][w])

Written(a) ==
  /\ files[a] = WithChunks
  /\ \A c \in Chunk : Point(a, c) \in collection.points \/ c \in UNION active[a]

Covered ==
  /\ phase[run] \in {"files", "last", "await", "save", "done"} => collection.exists
  /\ phase[run] = "files" /\ NoThrow(run) => FilesCovered(run)
  /\ phase[run] \in {"last", "await", "save", "done"} => Written(run)
  /\ phase[run] = "done" => manifest = [sha |-> ShaOf[run], files |-> files[run]]

\* A batch that may fail has a worker that waits for it.
Watched ==
  phase[run] = "files" /\ "batchError" \in Events =>
    \A t \in active[run] :
      active[run] = {t} /\ \E w \in FileWorkers : t \in fileWorker[run][w].race

\* Batches do not fail, or the only file worker waits for every one of them.
BatchFailuresSeen ==
  \/ "batchError" \notin Events
  \/ EmbeddingConcurrency = 1 /\ \E w : FileWorkers = {w}

Tracked == Shape /\ Ordered /\ Covered /\ Watched

\* The phase of the current run is one that Covered and Watched do not speak of.
LEMMA Untracked ==
  ASSUME phase'[run'] \in {"drop", "unlist", "create", "failed"}
  PROVE  Covered' /\ Watched'
  BY DEF Covered, Watched

LEMMA ChunkOfFile == \A c \in Chunk : c[1] \in Files /\ c \in ChunksOf(c[1])
  BY ChunkShape DEF Chunk

\* What a run that is over still does adds points, if anything.
LEMMA OtherRunCovered ==
  ASSUME Tracked, NEW a \in Runs, a # run, Work(a)
  PROVE  Covered' /\ Watched'
<1>1. run \in Runs /\ a \in Nat /\ run \in Nat
  BY DEF Tracked, Shape, TypeOK, Runs
<1>2. phase[a] \in {"queued", "done", "failed"}
  BY <1>1 DEF Tracked, Ordered, Ended
<1>3. /\ run' = run /\ phase'[run] = phase[run] /\ nextFile'[run] = nextFile[run]
      /\ fileWorker'[run] = fileWorker[run] /\ files'[run] = files[run]
      /\ batch'[run] = batch[run] /\ active'[run] = active[run]
  BY <1>1, WorkFrame DEF Tracked
<1>4. /\ collection.points \subseteq collection'.points
      /\ collection'.exists = collection.exists /\ manifest' = manifest
  <2>1. collection \in [exists : BOOLEAN, points : SUBSET ({ShaOf[b] : b \in Runs} \X Chunk)]
    BY DEF Tracked, Shape, TypeOK
  <2>2. /\ \/ collection' = collection
           \/ \E S : collection' = [collection EXCEPT !.points = @ \cup S]
        /\ manifest' = manifest
    BY <1>2 DEF Work, DropPoints, DropCollection, CreateCollection, StoreThrows, RunFails,
                SaveManifest, Setup, TakeFile, ReadFile, FileThrows, AddLast, AddFull, FileStep,
                Upserted, BatchThrows, Settle, Flush, FilesDone
  <2>3. QED
    BY <2>1, <2>2
<1>5. Scheduled(run)' = Scheduled(run)
  BY <1>3 DEF Scheduled
<1>6. \A c : Point(run, c)' = Point(run, c)
  BY <1>3 DEF Point
<1>7. NoThrow(run)' = NoThrow(run) /\ (FilesCovered(run) => FilesCovered(run)')
  BY <1>3, <1>4, <1>5, <1>6 DEF NoThrow, FilesCovered
<1>8. Written(run) => Written(run)'
  BY <1>3, <1>4, <1>6 DEF Written
<1>9. QED
  BY <1>3, <1>4, <1>7, <1>8 DEF Tracked, Covered, Watched

LEMMA SetupCovered ==
  ASSUME Tracked,
         DropPoints(run) \/ DropCollection(run) \/ CreateCollection(run) \/ StoreThrows(run)
           \/ SaveManifest(run)
  PROVE  Covered' /\ Watched'
<1>1. /\ run \in Runs /\ phase \in [Runs -> Phases]
      /\ collection \in [exists : BOOLEAN, points : SUBSET ({ShaOf[b] : b \in Runs} \X Chunk)]
  BY DEF Tracked, Shape, TypeOK
<1>2. UNCHANGED <<run, nextFile, fileWorker, files, batch, active, awaited>>
  BY DEF DropPoints, DropCollection, CreateCollection, StoreThrows, SaveManifest, Setup
<1>3. CASE DropPoints(run) \/ DropCollection(run) \/ StoreThrows(run)
  <2>1. phase'[run] \in {"unlist", "create", "failed"}
    BY <1>1, <1>3 DEF DropPoints, DropCollection, StoreThrows, Goto
  <2>2. QED
    BY <1>2, <2>1, Untracked
<1>4. CASE CreateCollection(run)
  <2>1. phase'[run] = "files" /\ collection'.exists /\ Fresh(run)
    BY <1>1, <1>4 DEF CreateCollection, Setup, Goto, Tracked, Ordered, Stages
  <2>2. /\ nextFile'[run] = 1 /\ active'[run] = {}
        /\ \A w \in FileWorkers : fileWorker'[run][w].pc = "next"
    BY <1>2, <2>1 DEF Fresh, At
  <2>3. \A f \in Files : ~ (f < 1)
    BY Constant
  <2>4. FilesCovered(run)'
    BY <1>2, <2>2, <2>3, ChunkOfFile DEF FilesCovered, WithChunks
  <2>5. QED
    BY <1>2, <2>1, <2>2, <2>4 DEF Covered, Watched
<1>5. CASE SaveManifest(run)
  <2>1. /\ phase[run] = "save" /\ phase'[run] = "done" /\ UNCHANGED collection
        /\ manifest' = [sha |-> ShaOf[run], files |-> files[run]]
    BY <1>1, <1>5 DEF SaveManifest, Setup, Goto
  <2>2. Written(run)'
    BY <1>2, <2>1 DEF Tracked, Covered, Written, Point
  <2>3. QED
    BY <1>2, <2>1, <2>2 DEF Tracked, Covered, Watched
<1>6. QED
  BY <1>3, <1>4, <1>5

\* File worker w of the current run goes on and loses nothing.
LEMMA WorkerCovers ==
  ASSUME Tracked, NEW w \in FileWorkers, NEW fw \in FileWorkerState, WellPlaced(fw),
         WorkerGoto(run, w, fw), phase[run] = "files", fileWorker[run][w].pc # "threw",
         UNCHANGED <<run, phase, nextFile, collection>>,
         fileWorker[run][w].pc # "end",
         fw.pc = "end" => nextFile[run] = NumFiles + 1,
         files[run] \subseteq files'[run],
         fileWorker[run][w].pc = "read" /\ fileWorker[run][w].file \in WithChunks
           => fileWorker[run][w].file \in files'[run],
         \A c \in Scheduled(run) : c \in Scheduled(run)',
         \A c \in Ahead(fileWorker[run][w]) : c \in Ahead(fw) \/ c \in Scheduled(run)'
  PROVE  Covered'
<1>1. run \in Runs
  BY DEF Tracked, Shape, TypeOK
<1>2. \A v \in FileWorkers : fileWorker'[run][v] = IF v = w THEN fw ELSE fileWorker[run][v]
  BY <1>1, WorkerGotoShape DEF Tracked
<1>3. NoThrow(run)' => NoThrow(run)
  BY <1>2 DEF NoThrow
<1>4. ASSUME FilesCovered(run) PROVE FilesCovered(run)'
  <2>1. \A v \in FileWorkers : fileWorker'[run][v].pc = "end" => nextFile'[run] = NumFiles + 1
    BY <1>2, <1>4 DEF FilesCovered
  <2>2. \A f \in WithChunks : f < nextFile'[run] =>
          \/ f \in files'[run]
          \/ \E v \in FileWorkers : fileWorker'[run][v].pc = "read" /\ fileWorker'[run][v].file = f
    BY <1>2, <1>4 DEF FilesCovered
  <2>3. ASSUME NEW c \in Chunk, c[1] < nextFile'[run], c \notin Scheduled(run)',
               Point(run, c) \notin collection.points
        PROVE  \E v \in FileWorkers : c \in Ahead(fileWorker'[run][v])
    <3>1. PICK v \in FileWorkers : c \in Ahead(fileWorker[run][v])
      BY <1>4, <2>3 DEF FilesCovered
    <3>2. QED
      BY <1>2, <2>3, <3>1
  <2>4. \A c : Point(run, c)' = Point(run, c)
    BY DEF Point
  <2>5. QED
    BY <2>1, <2>2, <2>3, <2>4 DEF FilesCovered
<1>5. QED
  BY <1>3, <1>4 DEF Tracked, Covered

LEMMA TakeFileCovered ==
  ASSUME Tracked, NEW w \in FileWorkers, TakeFile(run, w), phase[run] = "files"
  PROVE  Covered'
<1> DEFINE n == nextFile[run]
<1>1. /\ run \in Runs /\ nextFile \in [Runs -> 1 .. NumFiles + 1] /\ n \in 1 .. NumFiles + 1
      /\ fileWorker[run][w].pc = "next"
      /\ UNCHANGED <<run, phase, files, batch, active, collection>>
  BY DEF Tracked, Shape, TypeOK, TakeFile, FileStep
<1>2. Scheduled(run)' = Scheduled(run) /\ Ahead(fileWorker[run][w]) = {}
  BY <1>1 DEF Scheduled, Ahead
<1>3. CASE ~ (nextFile[run] <= NumFiles)
  <2>1. At("end", 0, 0) \in FileWorkerState /\ WellPlaced(At("end", 0, 0))
    BY AtShape DEF WorkerSteps
  <2>2. WorkerGoto(run, w, At("end", 0, 0)) /\ UNCHANGED nextFile /\ n = NumFiles + 1
    BY <1>1, <1>3, Constant DEF TakeFile
  <2>3. QED
    BY <1>1, <1>2, <2>1, <2>2, WorkerCovers
<1>4. CASE nextFile[run] <= NumFiles
  <2> DEFINE fw == At("read", n, 1)
  <2>1. n \in Files /\ n \in Nat
    BY <1>1, <1>4, Constant DEF Files
  <2>2. fw \in FileWorkerState /\ WellPlaced(fw)
    BY <2>1, AtShape DEF WorkerSteps
  <2>3. WorkerGoto(run, w, fw) /\ nextFile'[run] = n + 1
    BY <1>1, <1>4 DEF TakeFile
  <2>4. \A v \in FileWorkers : fileWorker'[run][v] = IF v = w THEN fw ELSE fileWorker[run][v]
    BY <1>1, <2>2, <2>3, WorkerGotoShape DEF Tracked
  <2>5. fw.pc = "read" /\ fw.file = n /\ Ahead(fw) = ChunksOf(n)
    BY DEF At, Ahead
  <2> HIDE DEF fw, n
  <2>6. NoThrow(run)' => NoThrow(run)
    BY <1>1, <2>4 DEF NoThrow
  <2>7. ASSUME FilesCovered(run) PROVE FilesCovered(run)'
    <3>1. \A v \in FileWorkers : fileWorker'[run][v].pc = "end" => nextFile'[run] = NumFiles + 1
      <4>1. \A v \in FileWorkers : fileWorker[run][v].pc # "end"
        BY <1>4, <2>1, <2>7, Constant DEF FilesCovered, n
      <4>2. QED
        BY <2>4, <2>5, <4>1
    <3>2. ASSUME NEW f \in WithChunks, f < nextFile'[run], f \notin files'[run]
          PROVE  \E v \in FileWorkers : fileWorker'[run][v].pc = "read" /\ fileWorker'[run][v].file = f
      <4>1. CASE f = n
        BY <2>4, <2>5, <4>1
      <4>2. CASE f # n
        <5>1. f \in Nat /\ f < n
          BY <2>1, <2>3, <3>2, <4>2, Constant DEF WithChunks
        <5>2. PICK v \in FileWorkers : fileWorker[run][v].pc = "read" /\ fileWorker[run][v].file = f
          BY <1>1, <2>7, <3>2, <5>1 DEF FilesCovered, n
        <5>3. QED
          BY <1>1, <2>4, <5>2
      <4>3. QED
        BY <4>1, <4>2
    <3>3. ASSUME NEW c \in Chunk, c[1] < nextFile'[run], c \notin Scheduled(run)',
                 Point(run, c) \notin collection.points
          PROVE  \E v \in FileWorkers : c \in Ahead(fileWorker'[run][v])
      <4>1. CASE c[1] = n
        BY <2>4, <2>5, <4>1, ChunkOfFile
      <4>2. CASE c[1] # n
        <5>1. c[1] \in Nat
          BY ChunkOfFile, Constant
        <5>2. c[1] < n
          BY <2>1, <2>3, <3>3, <4>2, <5>1
        <5>3. PICK v \in FileWorkers : c \in Ahead(fileWorker[run][v])
          BY <1>2, <2>7, <3>3, <5>2 DEF FilesCovered, n
        <5>4. QED
          BY <1>2, <2>4, <5>3
      <4>3. QED
        BY <4>1, <4>2
    <3>4. \A c : Point(run, c)' = Point(run, c)
      BY <1>1 DEF Point
    <3>5. QED
      BY <1>1, <3>1, <3>2, <3>3, <3>4 DEF FilesCovered
  <2>8. QED
    BY <1>1, <2>6, <2>7 DEF Tracked, Covered
<1>5. QED
  BY <1>3, <1>4

LEMMA ReadFileCovered ==
  ASSUME Tracked, NEW w \in FileWorkers, ReadFile(run, w)
  PROVE  Covered'
<1> DEFINE f == fileWorker[run][w].file
<1>1. /\ run \in Runs /\ fileWorker[run][w].pc = "read" /\ phase[run] = "files"
      /\ UNCHANGED <<run, phase, nextFile, batch, active, collection>>
      /\ files \in [Runs -> SUBSET Files]
  BY DEF Tracked, Shape, TypeOK, ReadFile, FileStep
<1>2. f \in Files /\ f \in Nat /\ ChunkCount[f] \in Nat
  BY <1>1, WorkerShape, Constant DEF WellPlaced, Tracked
<1>3. Scheduled(run)' = Scheduled(run) /\ Ahead(fileWorker[run][w]) = ChunksOf(f)
  BY <1>1 DEF Scheduled, Ahead
<1>4. CASE ChunkCount[f] = 0
  <2>1. WorkerGoto(run, w, At("next", f, 0)) /\ UNCHANGED files
    BY <1>4 DEF ReadFile
  <2>2. /\ At("next", f, 0) \in FileWorkerState /\ WellPlaced(At("next", f, 0))
        /\ At("next", f, 0).pc = "next"
    BY <1>2, AtShape DEF WorkerSteps, At
  <2>3. ChunksOf(f) = {} /\ f \notin WithChunks
    BY <1>2, <1>4 DEF ChunksOf, WithChunks
  <2>4. QED
    BY <1>1, <1>3, <2>1, <2>2, <2>3, WorkerCovers
<1>5. CASE ChunkCount[f] # 0
  <2>1. WorkerGoto(run, w, At("add", f, 1)) /\ files'[run] = files[run] \cup {f}
    BY <1>1, <1>5 DEF ReadFile
  <2>2. At("add", f, 1) \in FileWorkerState /\ WellPlaced(At("add", f, 1))
    BY <1>2, AtShape DEF WorkerSteps
  <2>3. At("add", f, 1).pc = "add" /\ Ahead(At("add", f, 1)) = {c \in ChunksOf(f) : c[2] >= 1}
    BY DEF At, Ahead
  <2>4. \A c \in ChunksOf(f) : c[2] >= 1
    BY <1>2 DEF ChunksOf
  <2>5. QED
    BY <1>1, <1>3, <2>1, <2>2, <2>3, <2>4, WorkerCovers
<1>6. QED
  BY <1>4, <1>5

LEMMA FileThrowsCovered ==
  ASSUME Tracked, NEW w \in FileWorkers, FileThrows(run, w), phase[run] = "files"
  PROVE  Covered'
<1>1. run \in Runs /\ UNCHANGED <<run, phase>>
  BY DEF Tracked, Shape, TypeOK, FileThrows, FileStep
<1>2. /\ At("threw", 0, 0) \in FileWorkerState /\ WellPlaced(At("threw", 0, 0))
      /\ At("threw", 0, 0).pc = "threw"
  BY AtShape DEF WorkerSteps, At
<1>3. fileWorker'[run][w].pc = "threw"
  BY <1>1, <1>2, WorkerGotoShape DEF FileThrows, Tracked
<1>4. ~ NoThrow(run)' /\ UNCHANGED collection
  BY <1>1, <1>3 DEF NoThrow, FileThrows, FileStep
<1>5. QED
  BY <1>1, <1>4 DEF Covered, Tracked

LEMMA AddLastCovered ==
  ASSUME Tracked, NEW w \in FileWorkers, AddLast(run, w), phase[run] = "files"
  PROVE  Covered'
<1> DEFINE f == fileWorker[run][w].file
           fw == At("next", f, 0)
<1>1. /\ run \in Runs /\ fileWorker[run][w].pc = "add"
      /\ UNCHANGED <<run, phase, nextFile, files, active, collection>>
      /\ batch'[run] = batch[run] \cup InHand(run, w)
  BY DEF Tracked, Shape, TypeOK, AddLast, FileStep
<1>2. fw \in FileWorkerState /\ WellPlaced(fw) /\ fw.pc = "next" /\ WorkerGoto(run, w, fw)
  <2>1. f \in Files \cup {0}
    BY <1>1, WorkerShape DEF FileWorkerState, Tracked
  <2>2. QED
    BY <2>1, AtShape DEF WorkerSteps, At, AddLast
<1>3. Ahead(fileWorker[run][w]) = InHand(run, w)
  BY <1>1 DEF Ahead, InHand
<1>4. Scheduled(run)' = Scheduled(run) \cup InHand(run, w)
  BY <1>1 DEF Scheduled
<1> HIDE DEF fw
<1>5. QED
  BY <1>1, <1>2, <1>3, <1>4, WorkerCovers

LEMMA AddFullCovered ==
  ASSUME Tracked, BatchFailuresSeen, NEW w \in FileWorkers, AddFull(run, w), phase[run] = "files"
  PROVE  Covered' /\ Watched'
<1> DEFINE f == fileWorker[run][w].file
           u == Upto(run, w)
           full == FullBatch(run, w)
<1>1. /\ run \in Runs /\ fileWorker[run][w].pc = "add"
      /\ UNCHANGED <<run, phase, nextFile, files, collection>>
      /\ batch'[run] = {} /\ active'[run] = active[run] \cup {full}
  BY AddFullFacts DEF Tracked, Shape, TypeOK
<1>2. /\ f \in Files /\ u \in Nat \ {0} /\ active'[run] \in SUBSET SUBSET Chunk
  <2>1. f \in Files /\ u \in Nat /\ u > fileWorker[run][w].chunk /\ full \subseteq Chunk
    BY <1>1, AddFullFacts, FullBatchShape DEF Tracked
  <2>2. fileWorker[run][w].chunk \in Nat
    BY <1>1, WorkerShape DEF FileWorkerState, Tracked
  <2>3. active[run] \in SUBSET SUBSET Chunk
    BY <1>1 DEF Tracked, Shape, TypeOK
  <2> HIDE DEF u, full
  <2>4. QED
    BY <1>1, <2>1, <2>2, <2>3
<1>3. \/ /\ Cardinality(active'[run]) >= EmbeddingConcurrency
         /\ WorkerGoto(run, w, Waiter(f, u, active'[run]))
      \/ /\ ~ (Cardinality(active'[run]) >= EmbeddingConcurrency)
         /\ WorkerGoto(run, w, At("add", f, u))
  BY <1>1, AddFullFacts DEF Tracked
<1>4. full = batch[run] \cup {c \in InHand(run, w) : c[2] < u}
  BY DEF FullBatch
<1> HIDE DEF u, full, f
<1>5. PICK fw \in {Waiter(f, u, active'[run]), At("add", f, u)} :
        /\ WorkerGoto(run, w, fw)
        /\ Cardinality(active'[run]) >= EmbeddingConcurrency => fw = Waiter(f, u, active'[run])
  BY <1>3
<1>6. /\ fw \in FileWorkerState /\ WellPlaced(fw)
      /\ fw.pc \in {"add", "wait"} /\ Ahead(fw) = {c \in ChunksOf(f) : c[2] >= u}
  <2>1. /\ Waiter(f, u, active'[run]) \in FileWorkerState
        /\ WellPlaced(Waiter(f, u, active'[run]))
    BY <1>2, WaiterShape
  <2>2. At("add", f, u) \in FileWorkerState /\ WellPlaced(At("add", f, u))
    <3>1. u >= 1 /\ "add" \in WorkerSteps /\ f \in Files \cup {0}
      BY <1>2 DEF WorkerSteps
    <3>2. QED
      BY <1>2, <3>1, AtShape
  <2>3. /\ At("add", f, u).file = f /\ At("add", f, u).chunk = u /\ At("add", f, u).pc = "add"
        /\ Waiter(f, u, active'[run]).file = f /\ Waiter(f, u, active'[run]).chunk = u
        /\ Waiter(f, u, active'[run]).pc = "wait"
    BY DEF At, Waiter
  <2>4. fw.file = f /\ fw.chunk = u /\ fw.pc \in {"add", "wait"}
    BY <1>5, <2>3
  <2>5. QED
    BY <1>5, <2>1, <2>2, <2>4 DEF Ahead
<1>7. Scheduled(run)' = Scheduled(run) \cup full
  BY <1>1, <1>4 DEF Scheduled
<1>8. \A c \in Ahead(fileWorker[run][w]) : c \in Ahead(fw) \/ c \in Scheduled(run)'
  <2> SUFFICES ASSUME NEW c \in Ahead(fileWorker[run][w]), c \notin Ahead(fw)
               PROVE  c \in Scheduled(run)'
    OBVIOUS
  <2>1. c \in InHand(run, w) /\ c \in ChunksOf(f)
    BY <1>1 DEF Ahead, InHand, f
  <2>2. c[2] \in Nat /\ ~ (c[2] >= u)
    BY <1>2, <1>6, <2>1, ChunkShape
  <2>3. c[2] < u
    BY <1>2, <2>2
  <2>4. QED
    BY <1>4, <1>7, <2>1, <2>3
<1>9. Covered'
  BY <1>1, <1>5, <1>6, <1>7, <1>8, WorkerCovers
<1>10. Watched'
  <2> SUFFICES ASSUME "batchError" \in Events
               PROVE  \A t \in active'[run] :
                        /\ active'[run] = {t}
                        /\ \E v \in FileWorkers : t \in fileWorker'[run][v].race
    BY <1>1 DEF Watched
  <2>1. EmbeddingConcurrency = 1 /\ FileWorkers = {w}
    BY DEF BatchFailuresSeen
  <2>2. fileWorker[run][w].race = {}
    BY <1>1, WorkerShape DEF WellPlaced, Tracked
  <2>3. active[run] = {}
    BY <2>1, <2>2 DEF Tracked, Watched
  <2>4. active'[run] = {full} /\ Cardinality(active'[run]) = 1
    <3>1. active'[run] = {full}
      BY <1>1, <2>3
    <3>2. Cardinality({full}) = 1
      BY FS_Singleton
    <3>3. QED
      BY <3>1, <3>2
  <2>5. fw.race = active'[run]
    BY <1>5, <2>1, <2>4 DEF Waiter
  <2>6. fileWorker'[run][w] = fw
    BY <1>1, <1>5, <1>6, WorkerGotoShape DEF Tracked
  <2>7. QED
    BY <2>4, <2>5, <2>6
<1>11. QED
  BY <1>9, <1>10

\* The file workers' steps that schedule nothing leave Watched alone.
LEMMA FileStepWatched ==
  ASSUME Tracked, BatchFailuresSeen, NEW w \in FileWorkers,
         TakeFile(run, w) \/ ReadFile(run, w) \/ FileThrows(run, w) \/ AddLast(run, w)
  PROVE  Watched'
<1>1. /\ UNCHANGED <<run, phase, active>> /\ run \in Runs
      /\ fileWorker[run][w].pc \in {"next", "read", "add"}
  BY DEF Tracked, Shape, TypeOK, TakeFile, ReadFile, FileThrows, AddLast, FileStep
<1>2. fileWorker[run][w].race = {}
  BY <1>1, WorkerShape DEF WellPlaced, Tracked
<1>3. ASSUME "batchError" \in Events, phase[run] = "files" PROVE active[run] = {}
  BY <1>2, <1>3 DEF BatchFailuresSeen, Tracked, Watched
<1>4. QED
  BY <1>1, <1>3 DEF Watched

LEMMA SettleFacts ==
  ASSUME Shape, NEW a \in Runs, NEW t \in active[a], NEW ok \in BOOLEAN, Settle(a, t, ok)
  PROVE  /\ \A w \in FileWorkers :
              LET fw == fileWorker[a][w] IN
              fileWorker'[a][w] = IF t \notin fw.race THEN fw
                                  ELSE IF ok THEN At("add", fw.file, fw.chunk)
                                  ELSE At("threw", 0, 0)
         /\ UNCHANGED <<run, nextFile, files, batch, manifest>>
         /\ active'[a] = active[a] \ {t}
<1>1. fileWorker \in [Runs -> [FileWorkers -> FileWorkerState]]
  BY DEF Shape, TypeOK, FileWorkerState
<1>2. \A w \in FileWorkers :
        LET fw == fileWorker[a][w] IN
        fileWorker'[a][w] = IF t \notin fw.race THEN fw
                            ELSE IF ok THEN At("add", fw.file, fw.chunk) ELSE At("threw", 0, 0)
  BY <1>1 DEF Settle
<1>3. QED
  BY <1>2 DEF Settle, Shape, TypeOK

LEMMA UpsertedCovered ==
  ASSUME Tracked, NEW t \in active[run], Upserted(run, t)
  PROVE  Covered' /\ Watched'
<1>1. /\ run \in Runs /\ run' = run
      /\ collection \in [exists : BOOLEAN, points : SUBSET ({ShaOf[b] : b \in Runs} \X Chunk)]
      /\ Settle(run, t, TRUE) /\ TRUE \in BOOLEAN
      /\ phase[run] \notin {"queued", "drop", "unlist", "create", "save", "done"}
  BY DEF Tracked, Shape, TypeOK, Upserted, Settle, Ordered, Stages, Fresh
<1>2. /\ collection'.exists = collection.exists
      /\ collection'.points = collection.points \cup Points(run, t)
  BY <1>1 DEF Upserted
<1>3. /\ \A w \in FileWorkers :
           LET fw == fileWorker[run][w] IN
           fileWorker'[run][w] = IF t \notin fw.race THEN fw ELSE At("add", fw.file, fw.chunk)
      /\ UNCHANGED <<nextFile, files, batch, manifest>>
      /\ active'[run] = active[run] \ {t}
  BY <1>1, SettleFacts DEF Tracked
<1>4. \A w \in FileWorkers :
        LET fw == fileWorker[run][w] IN
        \/ fileWorker'[run][w] = fw
        \/ /\ fw.pc = "wait" /\ fileWorker'[run][w].pc = "add"
           /\ Ahead(fileWorker'[run][w]) = Ahead(fw)
  <2> SUFFICES ASSUME NEW w \in FileWorkers, fileWorker'[run][w] # fileWorker[run][w]
               PROVE  /\ fileWorker[run][w].pc = "wait" /\ fileWorker'[run][w].pc = "add"
                      /\ Ahead(fileWorker'[run][w]) = Ahead(fileWorker[run][w])
    OBVIOUS
  <2>1. /\ t \in fileWorker[run][w].race
        /\ fileWorker'[run][w] = At("add", fileWorker[run][w].file, fileWorker[run][w].chunk)
    BY <1>3
  <2>2. fileWorker[run][w].pc = "wait"
    BY <1>1, <2>1, WorkerShape DEF WellPlaced, Tracked
  <2>3. QED
    BY <2>1, <2>2 DEF At, Ahead
<1>5. \A c : Point(run, c)' = Point(run, c)
  BY <1>1 DEF Point
<1>6. \A c \in t : Point(run, c) \in collection'.points
  BY <1>2 DEF Points
<1>7. NoThrow(run)' => NoThrow(run)
  BY <1>1, <1>4 DEF NoThrow
<1>8. ASSUME FilesCovered(run) PROVE FilesCovered(run)'
  <2>1. \A w \in FileWorkers : fileWorker'[run][w].pc = "end" => nextFile'[run] = NumFiles + 1
    BY <1>3, <1>4, <1>8 DEF FilesCovered
  <2>2. \A f \in WithChunks : f < nextFile'[run] =>
          \/ f \in files'[run]
          \/ \E w \in FileWorkers : fileWorker'[run][w].pc = "read" /\ fileWorker'[run][w].file = f
    BY <1>3, <1>4, <1>8 DEF FilesCovered
  <2>3. ASSUME NEW c \in Chunk, c[1] < nextFile'[run], c \notin Scheduled(run)',
               Point(run, c) \notin collection'.points
        PROVE  \E w \in FileWorkers : c \in Ahead(fileWorker'[run][w])
    <3>1. c \notin t /\ Point(run, c) \notin collection.points
      BY <1>2, <1>6, <2>3
    <3>2. c \notin Scheduled(run)
      BY <1>1, <1>3, <2>3, <3>1 DEF Scheduled
    <3>3. PICK w \in FileWorkers : c \in Ahead(fileWorker[run][w])
      BY <1>3, <1>8, <2>3, <3>1, <3>2 DEF FilesCovered
    <3>4. QED
      BY <1>4, <3>3
  <2>4. QED
    BY <1>1, <1>5, <2>1, <2>2, <2>3 DEF FilesCovered
<1>9. ASSUME Written(run) PROVE Written(run)'
  <2>1. \A c \in Chunk : Point(run, c) \in collection'.points \/ c \in UNION active'[run]
    BY <1>2, <1>3, <1>6, <1>9 DEF Written
  <2>2. QED
    BY <1>1, <1>3, <1>5, <1>9, <2>1 DEF Written
<1>10. /\ phase[run] = "files" => phase'[run] = "files"
       /\ phase[run] \in {"last", "await"} => phase'[run] \in {"save", "await"}
       /\ phase[run] = "failed" => phase'[run] = "failed"
  BY <1>1, SettleStage DEF Tracked
<1>11. phase[run] \in {"files", "last", "await", "failed"}
  BY <1>1 DEF Tracked, Shape, TypeOK, Phases
<1>12. Covered'
  <2>1. CASE phase[run] = "files"
    BY <1>1, <1>2, <1>7, <1>8, <1>10, <2>1 DEF Tracked, Covered
  <2>2. CASE phase[run] \in {"last", "await"}
    BY <1>1, <1>2, <1>9, <1>10, <2>2 DEF Tracked, Covered
  <2>3. CASE phase[run] = "failed"
    BY <1>1, <1>10, <2>3, Untracked
  <2>4. QED
    BY <1>11, <2>1, <2>2, <2>3
<1>13. Watched'
  BY <1>1, <1>3, <1>10, <1>11 DEF Tracked, Watched
<1>14. QED
  BY <1>12, <1>13

\* A batch that fails takes its waiting worker, or the run, with it.
LEMMA BatchThrowsCovered ==
  ASSUME Tracked, NEW t \in active[run], BatchThrows(run, t)
  PROVE  Covered' /\ Watched'
<1>1. /\ run \in Runs /\ run' = run
      /\ Settle(run, t, FALSE) /\ FALSE \in BOOLEAN
      /\ phase[run] \notin {"queued", "drop", "unlist", "create", "save", "done"}
      /\ collection \in [exists : BOOLEAN, points : SUBSET ({ShaOf[b] : b \in Runs} \X Chunk)]
  BY DEF Tracked, Shape, TypeOK, BatchThrows, Settle, Ordered, Stages, Fresh
<1>2. phase[run] \in {"files", "last", "await", "failed"}
  BY <1>1 DEF Tracked, Shape, TypeOK, Phases
<1>3. CASE phase[run] \in {"last", "await", "failed"}
  <2>1. phase'[run] = "failed"
    BY <1>1, <1>3, SettleStage DEF Tracked
  <2>2. QED
    BY <1>1, <2>1, Untracked
<1>4. CASE phase[run] = "files"
  <2>1. collection.exists /\ "batchError" \in Events /\ collection'.exists
    BY <1>1, <1>4 DEF Tracked, Covered, BatchThrows
  <2>2. PICK w \in FileWorkers : t \in fileWorker[run][w].race
    BY <1>4, <2>1 DEF Tracked, Watched
  <2>3. fileWorker'[run][w].pc = "threw" /\ active'[run] = active[run] \ {t}
    <3>1. /\ \A v \in FileWorkers : t \in fileWorker[run][v].race
               => fileWorker'[run][v] = At("threw", 0, 0)
          /\ active'[run] = active[run] \ {t}
      BY <1>1, SettleFacts DEF Tracked
    <3>2. QED
      BY <2>2, <3>1 DEF At
  <2>4. active'[run] = {}
    BY <1>4, <2>1, <2>3 DEF Tracked, Watched
  <2>5. phase'[run] = "files"
    BY <1>1, <1>4, SettleStage DEF Tracked
  <2>6. ~ NoThrow(run)'
    BY <1>1, <2>3 DEF NoThrow
  <2>7. QED
    BY <1>1, <2>1, <2>4, <2>5, <2>6 DEF Covered, Watched
<1>5. QED
  BY <1>2, <1>3, <1>4

\* When every file worker came to its end, what is left is scheduled.
LEMMA FlushCovered ==
  ASSUME Tracked, Flush(run)
  PROVE  Covered' /\ Watched'
<1>1. /\ run \in Runs /\ run' = run /\ phase[run] = "files"
      /\ \A w \in FileWorkers : fileWorker[run][w].pc = "end"
      /\ UNCHANGED <<nextFile, fileWorker, files, collection>>
  BY DEF Tracked, Shape, TypeOK, Flush, FilesDone
<1>2. phase'[run] \in {"last", "await", "save"}
  BY <1>1 DEF Flush, Goto, Tracked, Shape, TypeOK
<1>3. UNION active'[run] = Scheduled(run)
  BY <1>1 DEF Flush, Scheduled, Tracked, Shape, TypeOK
<1>4. FilesCovered(run)
  BY <1>1 DEF NoThrow, Tracked, Covered
<1>5. nextFile[run] = NumFiles + 1
  <2>1. FileWorkers # {}
    BY FullIndexAssumption DEF FullIndexAssumption
  <2>2. QED
    BY <1>1, <1>4, <2>1 DEF FilesCovered
<1>6. \A f \in Files : f < nextFile[run]
  BY <1>5, Constant
<1>7. files[run] = WithChunks
  <2>1. files[run] \subseteq WithChunks
    BY <1>1 DEF Tracked, Ordered, Stages
  <2>2. WithChunks \subseteq files[run]
    BY <1>1, <1>4, <1>6 DEF FilesCovered, WithChunks
  <2>3. QED
    BY <2>1, <2>2
<1>8. \A c \in Chunk : Point(run, c) \in collection.points \/ c \in Scheduled(run)
  <2>1. \A w \in FileWorkers : Ahead(fileWorker[run][w]) = {}
    BY <1>1 DEF Ahead
  <2>2. QED
    BY <1>4, <1>6, <2>1, ChunkOfFile DEF FilesCovered
<1>9. \A c : Point(run, c)' = Point(run, c)
  BY <1>1 DEF Point
<1>10. Written(run)'
  BY <1>1, <1>3, <1>7, <1>8, <1>9 DEF Written
<1>11. QED
  BY <1>1, <1>2, <1>10 DEF Tracked, Covered, Watched

LEMMA TrackedStep ==
  ASSUME BatchFailuresSeen, Tracked, [Next]_vars
  PROVE  Covered' /\ Watched'
<1>1. CASE NextRun
  <2>1. run' \in Runs /\ phase'[run'] = "drop"
    BY <1>1, NextRunShape, Constant DEF NextRun, Goto, Tracked, Shape, TypeOK, Runs
  <2>2. QED
    BY <2>1, Untracked
<1>2. CASE Crash
  <2>1. phase'[run'] = "failed"
    BY <1>2 DEF Crash, Goto, Tracked, Shape, TypeOK
  <2>2. QED
    BY <2>1, Untracked
<1>3. ASSUME NEW a \in Runs, Work(a), a # run PROVE Covered' /\ Watched'
  BY <1>3, OtherRunCovered
<1>4. CASE Work(run)
  <2>1. run \in Runs
    BY DEF Tracked, Shape, TypeOK
  <2>2. CASE DropPoints(run) \/ DropCollection(run) \/ CreateCollection(run)
               \/ StoreThrows(run) \/ SaveManifest(run)
    BY <2>2, SetupCovered
  <2>3. ASSUME NEW w \in FileWorkers,
               TakeFile(run, w) \/ ReadFile(run, w) \/ FileThrows(run, w) \/ AddLast(run, w)
                 \/ AddFull(run, w)
        PROVE  Covered' /\ Watched'
    <3>1. phase[run] \in {"files", "failed"} /\ UNCHANGED <<run, phase>>
      BY <2>3 DEF TakeFile, ReadFile, FileThrows, AddLast, AddFull, FileStep
    <3>2. CASE phase[run] = "failed"
      BY <3>1, <3>2, Untracked
    <3>3. CASE phase[run] = "files"
      BY <2>3, <3>3, TakeFileCovered, ReadFileCovered, FileThrowsCovered, AddLastCovered,
         AddFullCovered, FileStepWatched
    <3>4. QED
      BY <3>1, <3>2, <3>3
  <2>4. ASSUME NEW t \in active[run], Upserted(run, t) \/ BatchThrows(run, t)
        PROVE  Covered' /\ Watched'
    BY <2>4, UpsertedCovered, BatchThrowsCovered
  <2>5. CASE Flush(run)
    BY <2>5, FlushCovered
  <2>6. CASE RunFails(run)
    <3>1. phase'[run'] = "failed"
      BY <2>1, <2>6 DEF RunFails, Goto, Tracked, Shape, TypeOK
    <3>2. QED
      BY <3>1, Untracked
  <2>7. QED
    BY <1>4, <2>2, <2>3, <2>4, <2>5, <2>6 DEF Work
<1>5. CASE UNCHANGED vars
  BY <1>5 DEF vars, Tracked, Covered, Watched, NoThrow, FilesCovered, Written, Scheduled, Point
<1>6. QED
  BY <1>1, <1>2, <1>3, <1>4, <1>5 DEF Next

\* "Repository manifests are saved after successful ... jobs": as long as batches do
\* not fail, or one file worker waits for each of them, a run that is done has
\* written every chunk of every file its manifest lists, and lists every file that
\* has chunks, whatever else fails, whatever earlier runs left behind and however
\* often the process is restarted.
THEOREM NothingLost ==
  ASSUME BatchFailuresSeen
  PROVE  Spec => []IndexComplete
<1>1. Init => Tracked
  <2>1. ASSUME Init PROVE Covered /\ Watched
    <3>1. phase[run] = "drop"
      BY <2>1, Constant DEF Init, Runs
    <3>2. QED
      BY <3>1 DEF Covered, Watched
  <2>2. QED
    BY <2>1, ShapeInit, OrderedInit DEF Tracked
<1>2. Tracked /\ [Next]_vars => Tracked'
  BY BatchFailuresSeen, ShapeStep, OrderedStep, TrackedStep DEF Tracked
<1>3. Tracked => IndexComplete
  <2> SUFFICES ASSUME Tracked, phase[run] = "done"
               PROVE  /\ manifest = [sha |-> ShaOf[run], files |-> WithChunks]
                      /\ Points(run, Chunk) \subseteq collection.points
    BY DEF IndexComplete, WithChunks
  <2>1. active[run] = {} /\ Written(run)
    BY DEF Tracked, Shape, TypeOK, Ordered, Stages, Covered
  <2>2. QED
    BY <2>1 DEF Tracked, Covered, Written, Points
<1>4. QED
  BY <1>1, <1>2, <1>3, PTL DEF Spec

=============================================================================
