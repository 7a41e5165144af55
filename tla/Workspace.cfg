SPECIFICATION FairSpec
CONSTANTS
  r1 = r1  r2 = r2  c1 = c1  c2 = c2  d = d
  h1 = h1  h2 = h2  s1 = s1  s2 = s2
  Repos = {r1, r2}
  Commits = {c1, c2, d}
  CommitKey <- CollidingKeys
  Reach <- Histories
  InitialTip <- OneSynced
  InitialCheckouts <- FirstOut
  Handles = {h1, h2}
  Syncs = {s1}
  MaxCachedCheckouts = 1
  GcAfterFetches = 1
  RmFails = TRUE
  NoCommit = NoCommit
INVARIANTS HeldNotYanked DiskAccountedFor TipComplete
PROPERTIES ResolveSettles
