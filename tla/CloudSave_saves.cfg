\* Two requests at once on two titles, two 6s being over the booster's 10.
CONSTANTS
  w1 = w1  w2 = w2  kart = kart  other = other
  Titles = {kart, other}
  Allowed = {kart}
  Sizes = {2, 6}
  Limit = 5
  LimitBooster = 10
  Substantial = 4
  NoFile = NoFile
  Free = Free
  Workers = {w1, w2}
  Uploads <- MCUploads
  Deletions <- MCDeletions
  Pushes <- MCPushes
  Sweeper = sweeper
  MaxSaveFailures = 1
SPECIFICATION FairSpec
INVARIANTS WithinLargestQuota
PROPERTIES NeverClobbered DowngradeSparesNextendo OverwriteIsRecoverable
  OverQuotaIsWatched DeadlineIsEnforced
