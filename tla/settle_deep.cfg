SPECIFICATION Spec
CONSTANTS
  p1 = p1  p2 = p2  p3 = p3  p4 = p4
  Pay = {p1, p2}
  payer_addr <- PayerDeep
  payee_addr <- PayeeDeep
  amount <- AmountDeep
  Node <- NodesDeep
  Child <- ChildrenDeep
  Funds <- FundsDeep
  AnchorOk = {p1, p2}
  MayExpire = {}
  U64_MAX = 10
  I64_MAX = 5
  MAX_PENDING = 1
  MAX_TERMINAL = 1
  MAX_SETTLE_HOPS = 6
  Contention = {FALSE}
  Proofs = {FALSE,TRUE}
  Keep = {TRUE}
  LoseKinds = {}
  MaxSends = 2
  MaxRestarts = 1
  MaxDetaches = 0
INVARIANTS
  AppliedMeansCredited ManagerBounded PrefixApplied UnsettledMeansDebited EdgesReconcile
CHECK_DEADLOCK FALSE
