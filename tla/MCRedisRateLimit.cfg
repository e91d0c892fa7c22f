SPECIFICATION Spec
CONSTANTS
  c1 = c1
  c2 = c2
  i1 = i1
  i2 = i2
  s1 = s1
  Instances <- TwoInstances
  Calls <- TwoCalls
  Subjects <- OneSubject
  Limit = 1
  MaxWindow = 2
  MaxServed = 2
  MaxFailures = 3
  MaxStops = 1
INVARIANTS
  SharedQuota
  DegradedQuota
  BucketsExpire
SYMMETRY Alike
CHECK_DEADLOCK FALSE
