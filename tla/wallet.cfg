SPECIFICATION Spec
CONSTANTS
  MAX_PENDING_ORDERS = 1
  MAX_PINNED_LEAF_KEYS = 2
  MAX_LEAF_KEY_CHANGES = 1
  MAX_SETTLEMENT_RECORDS = 1
  Node = {"p1", "p2"}
  SlotAt <- MCSlotAt
  PrefixOf <- MCPrefixOf
  KeyOf <- MCKeyOf
  PayeeLeaf = {"p2"}
  Identity = {"u1", "u2"}
  Target = {"p2"}
  CONTROL_COMMIT_ATTEMPTS = 3
  INBOX = 1
  MaxJoins = 2
  MaxActs = 4
INVARIANTS LinkKnown AddressCurrent BalanceOfLink VerdictsTrue
PROPERTY PinsStay
CHECK_DEADLOCK FALSE
