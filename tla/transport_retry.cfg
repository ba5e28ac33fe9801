SPECIFICATION Spec
CONSTANTS
  e1 = e1
  e2 = e2
  Env = {e1, e2}
  src <- Src
  dst <- Dst
  Node <- Nodes
  User <- Users
  MAX_HOPS = 3
  SINK_CAPACITY = 1
  max_per_origin = 1
  max_origins = 2
  MaxAttempts = 2
  MaxTimeouts = 1
  MaxFaults = 1
CHECK_DEADLOCK FALSE
INVARIANTS DeliveredOnce DeliveredIsTrue HonestNeverRefused
