SPECIFICATION Spec
CONSTANTS
  Image = {i1}
  NoImage = noimage
  User = {alice}
  NoUser = nobody
  Name = {n1}
  Req = {r1}
  MaxId = 2
  MaxChanges = 1
  Faults = {}
SYMMETRY Symmetry
INVARIANTS AddedTagsLinked
