\* Two pushes at once of two titles, one failed write and one restart.
CONSTANTS
  Titles = {kart, ink}
  MaxSeconds = 1
  Workers = {w1, w2}
  Inodes = {i1, i2, i3, i4}
  MaxSaveFailures = 1
  MaxRestarts = 1
  Empty = Empty
  Torn = Torn
  None = None
SPECIFICATION Spec
SYMMETRY MCSymmetry
INVARIANTS TypeOK StoredWasPushed
PROPERTIES NeverRegresses AnsweredIsStored
