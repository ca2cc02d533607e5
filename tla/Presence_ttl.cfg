\* A console heard of once, and then time.
CONSTANTS
  Pids = {p1}
  GameTTL = 1
  ConsoleTTL = 3
  MaxSeen = 1
  Workers = {w1}
  MaxRestarts = 0
  None = None
SPECIFICATION Spec
INVARIANTS HeardStaysShown
