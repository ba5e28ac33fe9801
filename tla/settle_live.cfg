SPECIFICATION LiveSpec
CONSTANTS
  p1 = p1  p2 = p2  p3 = p3  p4 = p4
  Pay = {p1, p3, p4}
  payer_addr <- PayerFlat
  payee_addr <- PayeeFlat
  amount <- AmountFlat
  Node <- NodesFlat
  Child <- ChildrenFlat
  Funds <- FundsFlat
  AnchorOk = {p1, p3, p4}
  MayExpire = {}
  U64_MAX = 10
  I64_MAX = 5
  MAX_PENDING = 1
  MAX_TERMINAL = 1
  MAX_SETTLE_HOPS = 6
  Contention = {FALSE, TRUE}
  Proofs = {FALSE,TRUE}
  Keep = {FALSE}
  LoseKinds = {"Forward", "Result"}
  MaxSends = 1
  MaxRestarts = 0
  MaxDetaches = 0
PROPERTIES
  PendingResolved PayerAnswered
CHECK_DEADLOCK FALSE
