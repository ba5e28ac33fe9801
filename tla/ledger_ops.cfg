SPECIFICATION LiveSpec
CONSTANTS
  a1 = a1
  a2 = a2
  r1 = r1
  r2 = r2
  r3 = r3
  t1 = t1
  t2 = t2
  Nil = Nil
  Account = {a1, a2}
  Request <- Requests
  Command <- Commands
  Payment <- Payments
  U64_MAX = 3
  I64_MAX = 2
  MAX_COMMITMENTS = 2
  MaxOps = 3
  MaxCrashes = 1
  MaxMoves = 1
CHECK_DEADLOCK FALSE
INVARIANT StoreVerifies
INVARIANT EquityAccounted
INVARIANT ValueOnce
INVARIANT AnswersTrue
PROPERTY DeferredAnswered
