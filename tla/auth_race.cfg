SPECIFICATION AuthSpec
CONSTANTS
  User = {alice}
  NoUser = nobody
  Req = {r1, r2}
  Token = {t1, t2}
  NoToken = notoken
  AccessLife = 1
  RefreshLife = 1
  CheckTime = 1
  MaxClock = 2
  Faults = {"database", "clash", "network"}
SYMMETRY Symmetry
INVARIANTS NoSharedToken RedeemedIsRevoked ExchangesOverlap StaleRoleBounded
PROPERTIES RevokedForGood
