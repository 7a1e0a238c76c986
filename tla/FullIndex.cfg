SPECIFICATION FairSpec
CONSTANTS
  w1 = w1
  w2 = w2
  w3 = w3
  NumRuns = 2
  ShaOf <- MCShaOf
  NumFiles = 3
  ChunkCount <- MCChunkCount
  FileWorkers = {w1, w2}
  EmbeddingConcurrency = 2
  BatchSize = 2
  Events = {"fileError", "storeError", "crash"}
CHECK_DEADLOCK FALSE
INVARIANTS
  TypeOK
  ChunksInOnePlace
  IndexComplete
PROPERTY
  RunsEnd
