SPECIFICATION FairSpec
CONSTANTS
  p1 = p1
  p2 = p2
  w1 = w1
  w2 = w2
  j1 = j1
  j2 = j2
  j3 = j3
  r1 = r1
  r2 = r2
  None = None
  Procs = {p1}
  Workers = {w1, w2}
  Jobs = {j1, j2, j3}
  Repos = {r1, r2}
  RepoOf <- MCRepoOf
  MaxAttempts = 2
  ScanLimit = 1
  Deletable = {}
  Events = {"jobError", "progressError", "completeError"}
  MaxEnqueues = 2
  MaxCrashes = 0
CHECK_DEADLOCK FALSE
INVARIANTS
  TypeOK
  AttemptsBounded
  ProgressAgrees
  DrainRemembered
PROPERTY
  JobsSettle
