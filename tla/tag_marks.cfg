SPECIFICATION Spec
CONSTANTS
  Image = {i1}
  NoImage = noimage
  User = {alice, bob}
  NoUser = nobody
  Name = {n1, n2}
  Req = {r1, r2}
  MaxId = 2
  MaxChanges = 2
  Faults = {"database"}
SYMMETRY Symmetry
INVARIANTS TogglesCount MarksAttached
PROPERTIES ImplementsBoard
