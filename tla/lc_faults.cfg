SPECIFICATION Spec
CONSTANTS
  User = {alice}
  Admin = {}
  NoUser = nobody
  Req = {r1, r2}
  Image = {i1, i2}
  NoImage = noimage
  Size = {1, 2, 3, 4}
  MaxSize = 3
  Quota = 2
  MaxFiles = 1
  OnDisk = FALSE
  Faults = {"storage", "database", "lostack", "disconnect", "crash"}
SYMMETRY Symmetry
INVARIANTS TypeOK NoDanglingRow NoOrphanObject QuotaOvershootBounded NeverUndercounts ErrorPageOnlyAfterDelete
PROPERTIES ImplementsCatalog
