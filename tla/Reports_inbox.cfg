\* An inbox of two, one report per hour, reports kept for an hour and a half.
CONSTANTS
  Pids = {p1, p2, p3}
  MaxReports = 2
  ReportMaxAge = 3
  Hour = 2
  PerHour = 1
  Senders = {s1, s2}
  MaxSeq = 4
  MaxTime = 3
  MaxLosses = 1
  NoPage = NoPage
SPECIFICATION InboxSpec
SYMMETRY MCSymmetry
INVARIANTS InboxTypeOK QuotaHolds
PROPERTIES DrownedByMany MarksWhatWasSeen
