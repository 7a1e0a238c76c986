SPECIFICATION FairSpec
CONSTANTS
  None = None
  u1 = u1 u2 = u2 r1 = r1 r2 = r2 d1 = d1 d2 = d2 h1 = h1 h2 = h2 i1 = i1
  Users = {u1, u2}
  Installations = {i1}
  Repos = {r1}
  InstallationOf <- MCInstallationOf
  Deliveries = {d1, d2}
  Handlers = {h1, h2}
  EventNames = {"created", "deleted", "suspend", "unsuspend", "added", "removed", "push", "opened", "closed"}
  Requests = {"erase", "login", "logout", "reindex", "token"}
  MaxActs = 2
  MaxMishaps = 1
INVARIANTS TypeOK  Settled 
PROPERTY EraseEnds
CHECK_DEADLOCK FALSE
