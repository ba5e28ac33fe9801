CONSTANTS
  r = r
  n1 = n1
  n2 = n2
  n3 = n3
  n4 = n4
  Id = {r, n1, n2, n3, n4}
  root = r
  NoNode = NoNode
  NoSlot = NoSlot
  Slots = {1}
SYMMETRY Perms
SPECIFICATION Spec
INVARIANT Valid
PROPERTY DownwardOnly
