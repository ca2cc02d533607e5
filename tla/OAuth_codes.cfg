\* Two requests at once, two codes, a failed write and a restart.
CONSTANTS
  kart = kart
  other = other
  p1 = p1
  site = site
  loop = loop
  v1 = v1
  name = name
  friends = friends
  Pids = {p1}
  Apps = {kart, other}
  Emulator = Emulator
  Scopes = {name, friends}
  Identity = name
  Redirects = {site, loop}
  Loopbacks = {loop}
  Verifiers = {v1}
  NoPkce = NoPkce
  Codes = {c1, c2}
  Offers <- MCOffers
  Asked <- MCAsked
  Presented <- MCPresented
  Workers = {w1, w2}
  MaxSaveFailures = 1
  MaxRestarts = 1
  None = None
  Torn = Torn
SPECIFICATION Spec
SYMMETRY MCSymmetry
INVARIANTS ReadsWereAgreed
PROPERTIES ConsentIsOneTime ApplicationsSurvive
