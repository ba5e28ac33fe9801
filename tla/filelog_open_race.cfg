SPECIFICATION Spec
CONSTANTS
  node = node  cli = cli
  a = a  b = b  c = c
  Proc = {node, cli}
  Id = {a, b}
  SoloOpens = FALSE
  IoErrors = FALSE
  MaxCrashes = 0
PROPERTIES
  OnlyTornDiscarded
