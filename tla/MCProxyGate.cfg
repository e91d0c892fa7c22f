SPECIFICATION Spec
CONSTANTS
  k1 = k1
  k2 = k2
  r1 = r1
  a1 = a1
  NoKey = NoKey
  Unset = Unset
  BadKey = BadKey
  Keys <- TwoKeys
  Requests = {r1}
  Editors = {a1}
  Fields <- TwoFields
  Allowed <- MCAllowed
  Default <- MCDefault
  Served = {200}
  Statuses = {200, 401, 429}
  MaxFailures = 1
  MaxDay = 3
SYMMETRY GateSymmetry
INVARIANTS
  TypeOK
  AuditNamesItsKey
  ServerAgreesWithTable
PROPERTIES
  AnsweredIsAudited
  RetentionHonoured
  RevokedKeyDrains
  AnonymousOnlyWhenAllowed
