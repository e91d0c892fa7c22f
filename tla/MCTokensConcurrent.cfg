SPECIFICATION RemovalSpec
CONSTANTS
  a1 = a1
  a2 = a2
  None = None
  Tokens = {1, 2, 3}
  Admins <- TwoAdmins
PROPERTY OneRemainsEnabled
CHECK_DEADLOCK FALSE
