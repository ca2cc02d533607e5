\* Two requests at once, a failed write and a restart.
CONSTANTS
  Ids = {s1, s2, s3}
  Devices <- Both
  Browser <- MCBrowser
  Window = 1
  Workers = {w1, w2}
  MaxSaveFailures = 1
  MaxRestarts = 1
  Absent = Absent
SPECIFICATION Spec
SYMMETRY Symmetry
INVARIANTS ClosedStaysClosed SessionsAreSaved SessionsAreReused
PROPERTIES SilenceFreesThePlace
