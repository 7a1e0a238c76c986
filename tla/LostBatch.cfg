SPECIFICATION Spec
CONSTANTS
  w1 = w1
  w2 = w2
  w3 = w3
  NumRuns = 1
  ShaOf <- MCShaOf
  NumFiles = 2
  ChunkCount <- MCChunkCount
  FileWorkers = {w1, w2}
  EmbeddingConcurrency = 2
  BatchSize = 2
  Events = {"batchError"}
CHECK_DEADLOCK FALSE
INVARIANT
  IndexComplete
