SPECIFICATION FairSpec
CONSTANTS
  r1 = r1
  r2 = r2
  k1 = k1
  ip1 = ip1
  a1 = a1
  None = None
  Tokens = {1, 2}
  Requests <- TwoRequests
  Keys = {k1}
  IPs = {ip1}
  Subjects <- OneSubject
  Admins = {a1}
  Undecryptable = {2}
  StoreMayFail = TRUE
  Statuses = {429}
  AuthCooldown = 1
  RateCooldown = 0
  MaxTime = 0
  StickyTTL = 1
PROPERTIES
  RequestsFinish
  DeletedTokenIsFreed
