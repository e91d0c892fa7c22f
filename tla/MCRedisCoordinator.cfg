SPECIFICATION Spec
CONSTANTS
  r1 = r1
  r2 = r2
  i1 = i1
  i2 = i2
  s1 = s1
  None = None
  Tokens = {1, 2}
  Instances <- TwoInstances
  Home <- MCHome
  Requests <- TwoRequests
  Subjects <- OneSubject
  ActiveLists <- AllOrFirst
  MaxFailures = 1
  MayCrash = TRUE
INVARIANTS
  TypeOK
  CountWithinLeases
  DrainsToZero
  RetryExcludesRefused
