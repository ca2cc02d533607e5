\* Two handlers at once, nobody banned, three passwords, a failed write and a restart.
CONSTANTS
  Mails = {m1, m2}
  NoMail = NoMail
  NoBan = NoBan
  Bannable = {}
  Gone = Gone
  Workers = {w1, w2}
  MaxIds = 2
  MaxHashes = 3
  MaxSaveFailures = 1
  MaxRestarts = 1
SPECIFICATION LinkSpec
SYMMETRY Symmetry
INVARIANTS ActsOnWhomItRead VerifiedWasConfirmed
PROPERTIES SpentLinksStartNothing
\* With no account and every password hash spent the bounded model stops.
CHECK_DEADLOCK FALSE
