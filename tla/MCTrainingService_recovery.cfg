SPECIFICATION Spec
CONSTANTS
  Nil = Nil
  Workers = {w1, w2}
  Configs = {c1, c2}
  Requests = {4}
  Notes = {n1}
  Interval = 2
  Accumulation = 2
  MaxStep = 4
  MaxCrashes = 1
  MaxCancels = 2
  MaxFaults = 1
SYMMETRY Symmetry
INVARIANTS
  TrajectoryIntact RecoveryOnPath LedgerNamesStored
PROPERTIES
  RecoveryNeverRegresses PauseKeepsProgress
