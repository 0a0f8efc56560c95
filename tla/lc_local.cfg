SPECIFICATION FairSpec
CONSTANTS
  User = {root}
  Admin = {root}
  NoUser = nobody
  Req = {r1, r2}
  Image = {i1, i2}
  NoImage = noimage
  Size = {1}
  MaxSize = 0
  Quota = 1
  MaxFiles = 2
  OnDisk = TRUE
  Faults = {"database", "disconnect"}
PROPERTIES DeletedObjectsGo RequestsAnswered
