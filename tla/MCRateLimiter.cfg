SPECIFICATION LimiterSpec
CONSTANTS
  Addresses = {a1, a2, p1}
  Trusted = {p1}
  Spellings = {canonical, mapped}
  Canonical = canonical
  Malformed = Malformed
  Replicas = {r1, r2}
  Requests = {q1, q2}
  Limit = 2
  Window = 3
  MaxSkew = 1
  MaxDelay = 1
  Clients = {a1}
  Headers <- ShortHeaders
  Paths <- ShortPaths
  NoReplica = NoReplica
  NoKey = NoKey
  MaxTime = 8
  MaxTries = 3
SYMMETRY Symmetry
INVARIANTS
  LimiterTypeOK
  SharedQuota
  LocalCap
  KeysAreClients
CHECK_DEADLOCK FALSE
