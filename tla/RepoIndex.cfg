CONSTANTS
  Commits <- MCCommits
  First = "c0"
  Children <- MCChildren
  Rewrites <- MCRewrites
  Paths <- MCPaths
  Config <- Cfg
  Rank <- MCRank
  Tree <- MCTree
  Settings <- MCSettings
  ChunkCount <- MCChunkCount
  None = None
  Branch = Branch
  MaxAttempts = 2
  MaxChanged = 2
  MaxFiles = 3
  MaxChunks = 3
  MaxPushes = 2
  MaxRequests = 1
  MaxErrors = 2
  Requests = {"full", "pr", "closePr", "delete"}
  Events = {"error", "lose"}
SPECIFICATION FairSpec
INVARIANTS TypeOK    DeletedIsGone
PROPERTY JobsEnd
CHECK_DEADLOCK FALSE
