\* A booster status lost and found again before the downgrade ran.
CONSTANTS
  w1 = w1  w2 = w2  kart = kart  other = other
  Titles = {kart, other}
  Allowed = {kart}
  Sizes = {2, 6}
  Limit = 5
  LimitBooster = 10
  Substantial = 4
  NoFile = NoFile
  Free = Free
  Workers = {w1, w2}
  Uploads <- MCUploads
  Deletions <- MCDeletions
  Pushes <- MCPushes
  Sweeper = sweeper
  MaxSaveFailures = 0
SPECIFICATION Spec
PROPERTIES BoosterKeepsSaves
