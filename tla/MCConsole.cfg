SPECIFICATION Spec
CONSTANTS
  None = None
  Pending = Pending
  Failed = Failed
  k1 = k1
  k2 = k2
  t1 = t1
  t2 = t2
  f1 = f1
  Keys <- TwoKeys
  Tokens <- TwoTokens
  Numeric <- TwoNumbers
  Highest <- ItsHighest
  Environment <- ItsEnvironment
  NotInteger = NotInteger
  Typed <- ItsTyped
  Filters <- OneFilter
  Patterns <- OneFilter
  MaxPages = 2
  MaxDialogs = 1
  MaxCaptchas = 3
  MaxSessions = 2
  MaxCalls = 2
  MaxWrites = 1
SYMMETRY Symmetry
INVARIANTS
  TypeOK
  TabMatchesServer
  FreshCaptcha
  SelectedAreListed
  RefusedSaveIsUnchanged
  BusyForCause
  ShownIsCurrent
