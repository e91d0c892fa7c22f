SPECIFICATION Spec
CONSTANTS
  c1 = c1
  c2 = c2
  s1 = s1
  s2 = s2
  Calls <- TwoCalls
  Subjects <- TwoSubjects
  Limits = {1, 2}
  MaxWindow = 2
  MaxServed = 4
INVARIANT Quota
