SPECIFICATION Spec
CONSTANTS
  node = node  cli = cli
  a = a  b = b  c = c
  Proc = {node, cli}
  Id = {a, b, c}
  SoloOpens = TRUE
  IoErrors = TRUE
  MaxCrashes = 2
SYMMETRY Symmetry
INVARIANTS
  AckedSurvives AppendedOnce AlwaysOpens
