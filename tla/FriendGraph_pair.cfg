\* Two accounts, favourite requests in flight, a failed write, two restarts.
CONSTANTS
  Pids = {p1, p2}
  Fans = {p1, p2}
  MaxInFlight = 2
  MaxSaveFailures = 1
  MaxRestarts = 2
SYMMETRY Symmetry
\* Nothing is left to do once the bounds are spent and every account is gone.
CHECK_DEADLOCK FALSE
SPECIFICATION Spec
INVARIANTS BlockSeparates FriendsMutualUnlessKept RequestsAreOpen DeletedIsForgotten
PROPERTIES FriendshipNeedsRequest NewAccountHasNoPast
