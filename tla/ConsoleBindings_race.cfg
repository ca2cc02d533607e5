\* Two handlers at once on mixed ids, a failed write and a restart.
CONSTANTS
  p1 = p1  p2 = p2  b1 = b1  b2 = b2  d1 = d1  d2 = d2
  NoId = NoId  Nobody = Nobody
  Pids <- MCPids
  Baas <- MCBaas
  Dids <- MCDids
  Minted <- MCMinted
  Requests <- MixedConsoles
  Workers = {w1, w2}
  MaxSaveFailures = 1
  MaxRestarts = 1
SPECIFICATION Spec
SYMMETRY Symmetry
INVARIANTS Exclusive
PROPERTIES FreshPidOwnsNothing OwnershipIsRespected
