CONSTANTS
  nr = nr
  na = na
  nb = nb
  user = user
  Node = {nr, na, nb}
  User = {user}
  Trees <- Both
  JoinTarget <- Joins
  AskSlot = {1}
  AskAddress <- Addresses
  LiveCommand = {"reject"}
  MAX_PENDING_JOINS = 1
  MAX_STORED_DECISIONS = 1
  MAX_PENDING_REBASE = 1
  MaxOps = 5
  MaxJoins = 2
  MaxLost = 1
  MaxCrash = 1
SPECIFICATION LiveSpec
INVARIANTS TypeOK KnownToParent EpochsAgree
PROPERTIES LatestJoinWins Convergence
CHECK_DEADLOCK FALSE
