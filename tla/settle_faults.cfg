SPECIFICATION Spec
CONSTANTS
  p1 = p1  p2 = p2  p3 = p3  p4 = p4
  Pay = {p1, p2}
  payer_addr <- PayerFlat
  payee_addr <- PayeeFlat
  amount <- AmountFlat
  Node <- NodesFlat
  Child <- ChildrenFlat
  Funds <- FundsFlat
  AnchorOk = {p1, p2}
  MayExpire = {p1}
  U64_MAX = 3
  I64_MAX = 3
  MAX_PENDING = 2
  MAX_TERMINAL = 2
  MAX_SETTLE_HOPS = 6
  Contention = {FALSE, TRUE}
  Proofs = {FALSE, TRUE}
  Keep = {FALSE}
  LoseKinds = {"Order", "Forward", "Result", "Reply"}
  MaxSends = 1
  MaxRestarts = 1
  MaxDetaches = 1
INVARIANTS
  TypeOK CascadeInv
PROPERTIES
  Contract
CHECK_DEADLOCK FALSE
