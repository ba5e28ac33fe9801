CONSTANTS
  nt = nt
  na = na
  nb = nb
  nu = nu
  Target = nt
  Peer = {na, nb}
  Children = {na, nb}
  Admins <- Seed
  Direct <- Dialled
  Routed <- Relayed
  CONTROL_REQUEST_MAX_TTL_SECS = 2
  CONTROL_REQUEST_TTL_SECS = 1
  MAX_DESIGNATED_ADMINS = 1
  max_per_origin = 1
  max_origins = 2
  MaxNow = 1
  MaxAsk = 2
  MaxRetry = 1
  MaxObs = 3
  MaxFaults = 2
SPECIFICATION Spec
INVARIANTS OnceWithinWindow ValueOnce
PROPERTY ActsWithAuthority
CHECK_DEADLOCK FALSE
