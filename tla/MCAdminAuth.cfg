SPECIFICATION Spec
CONSTANTS
  Captchas = {c1, c2}
  Logins = {p1, p2}
  Visits = {v1, v2}
  NoId = NoId
  CaptchaLife = 1
  SessionLife = 2
  MaxTime = 3
  MaxFailures = 1
SYMMETRY AuthSymmetry
INVARIANTS
  OneTryPerCaptcha
  SessionIsEarned
PROPERTIES
  AdmittedInSession
  SessionEndsForCause
  CaptchaEndsForCause
