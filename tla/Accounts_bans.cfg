\* Two handlers at once over two addresses, two failed writes and a restart.
CONSTANTS
  Mails = {m1, m2}
  NoMail = NoMail
  NoBan = NoBan
  Bannable = {1, 2}
  Gone = Gone
  Workers = {w1, w2}
  MaxIds = 2
  MaxHashes = 3
  MaxSaveFailures = 2
  MaxRestarts = 1
SPECIFICATION Spec
SYMMETRY Symmetry
INVARIANTS MailFindsItsAccount BannedIsGone
PROPERTIES BanKeepsItsMail
\* With no account and every password hash spent the bounded model stops.
CHECK_DEADLOCK FALSE
