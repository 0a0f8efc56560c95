SPECIFICATION Spec
CONSTANTS
  User = {alice}
  NoUser = nobody
  Req = {r1, r2}
  Token = {t1, t2, t3}
  NoToken = notoken
  AccessLife = 1
  RefreshLife = 3
  CheckTime = 0
  MaxClock = 1
  Faults = {}
  Reloads = {TRUE}
SYMMETRY Symmetry
PROPERTIES NoNeedlessLogout
CHECK_DEADLOCK FALSE
