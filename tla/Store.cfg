\* Two requests at a time and three in all, with one error or crash.
SPECIFICATION FairSpec
CONSTANTS
  s1 = s1 s2 = s2 p1 = p1 p2 = p2 None = None
  Slots = {s1, s2}
  Ids = {p1, p2}
  Dims = {2, 3}
  Menu <- MCMenu
  Existing <- MCExisting
  Batch = 1
  Limit = 1
  SweepLimit = 1
  Parallel = 2
  MaxRequests = 3
  MaxErrors = 1
INVARIANTS TypeOK DeleteFindsWhatSearchFinds DeletedIsGone CompletedIsWhole PointsOfCollection
PROPERTIES RemovedOnPurpose UpsertsAnswered
CHECK_DEADLOCK FALSE
