SPECIFICATION Spec
CONSTANTS
  User = {alice, bob}
  NoUser = nobody
  Req = {r1, r2}
  Token = {t1, t2, t3}
  NoToken = notoken
  AccessLife = 1
  RefreshLife = 3
  CheckTime = 0
  MaxClock = 1
  Faults = {"database", "network"}
  Reloads = {TRUE, FALSE}
SYMMETRY Symmetry
INVARIANTS LogoutSticks PairedTokens AtRestTokenLives
PROPERTIES LogOutHasCause
CHECK_DEADLOCK FALSE
