\* Two requests at once about two accounts, one entry of seen before pruning.
CONSTANTS
  Pids = {p1, p2}
  GameTTL = 0
  ConsoleTTL = 1
  MaxSeen = 1
  Workers = {w1, w2}
  MaxRestarts = 1
  None = None
SPECIFICATION FairSpec
INVARIANTS LeavingIsInstant HeardIsShown
PROPERTIES PlayingIsNotDowngraded SilentEndOffline
