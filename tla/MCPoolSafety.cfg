SPECIFICATION Spec
CONSTANTS
  r1 = r1
  r2 = r2
  k1 = k1
  ip1 = ip1
  a1 = a1
  None = None
  Tokens = {1, 2}
  Requests <- TwoRequests
  Keys = {k1}
  IPs = {ip1}
  Subjects <- OneSubject
  Admins = {a1}
  Undecryptable = {1}
  StoreMayFail = TRUE
  Statuses = {200, 429}
  AuthCooldown = 2
  RateCooldown = 1
  MaxTime = 1
  StickyTTL = 1
SYMMETRY RequestSymmetry
INVARIANTS
  TypeOK
  InFlightIsLeases
  RetryUsesAnotherToken
PROPERTIES
  OneRemainsEnabled
  RetiredTokenDrains
  RefusedForCause
  AffinityForCause
  ImplementsLedger
