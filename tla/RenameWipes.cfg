CONSTANTS
  Commits <- MCCommits
  First = "c0"
  Children <- Renames
  Rewrites <- MCRewrites
  Paths <- MCPaths
  Config <- Cfg
  Rank <- MCRank
  Tree <- MCTree
  Settings <- MCSettings
  ChunkCount <- MCChunkCount
  None = None
  Branch = Branch
  MaxAttempts = 2
  MaxChanged = 2
  MaxFiles = 3
  MaxChunks = 3
  MaxPushes = 2
  MaxRequests = 0
  MaxErrors = 0
  Requests = {}
  Events = {}
SPECIFICATION Spec
INVARIANT ChangedFilesIndexed
CHECK_DEADLOCK FALSE
