SPECIFICATION SettingsSpec
CONSTANTS
  Unset = Unset
  Editors = {a1, a2}
  Fields <- TwoFields
  Allowed <- MCAllowed
  Default <- MCDefault
  MaxFailures = 0
INVARIANT ServerAgreesWithTable
