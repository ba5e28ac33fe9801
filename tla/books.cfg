CONSTANTS
  nr = nr
  na = na
  nb = nb
  u1 = u1
  v1 = v1
  u2 = u2
  o1 = o1
  o2 = o2
  o3 = o3
  Nil = Nil
  NoNode = NoNode
  NoSlot = NoSlot
  U64_MAX = 9
  I64_MAX = 9
  ById <- MCIds
  Node = {nr, na, nb}
  Tree0 <- MCTree
  Grants <- MCGrants
  Order <- MCOrders
  JoinTarget <- MCJoins
  Slots = {0}
  Committer = {na}
  MAX_BUNDLE_CHAIN = 1
  MaxOps = 2
CHECK_DEADLOCK FALSE
SPECIFICATION Spec
INVARIANTS LoadsUnlessClash AuditTrue RoutesAgree ProofsExact
