SPECIFICATION Spec
CONSTANTS
  Nil = Nil
  Workers = {w1, w2}
  Configs = {c1}
  Requests = {1}
  Notes = {n1}
  Interval = 2
  Accumulation = 2
  MaxStep = 1
  MaxCrashes = 0
  MaxCancels = 0
  MaxFaults = 0
INVARIANTS
  CompleteSealsNamedHead
