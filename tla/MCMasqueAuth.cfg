SPECIFICATION Spec
CONSTANTS
  Handlers = {h1, h2}
  Keys = {k1, k2}
  Scopes = {relay}
  Addrs = {a1, a2}
  Tokens = {t1, t2, t3}
  None = None
  TTL = 1
  MaxPending = 2
  MaxPerSource = 2
  MaxPerAddr = 2
  MaxTime = 2
SYMMETRY MCSymmetry
INVARIANTS
  WithinLimits
  OneChallengePerRequest
PROPERTIES
  SoundGrants
  NoLiveEviction
