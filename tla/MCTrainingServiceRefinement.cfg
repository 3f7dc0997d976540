SPECIFICATION Spec
CONSTANTS
  Nil = Nil
  Workers = {w1, w2}
  Configs = {c1}
  Requests = {1, 2}
  Notes = {n1}
  Interval = 2
  Accumulation = 2
  MaxStep = 2
  MaxCrashes = 1
  MaxCancels = 1
  MaxFaults = 0
SYMMETRY Symmetry
INVARIANTS
  TypeOK CommittedChain NoInternalConflict ReplayAgrees CoveredUpToCommit AdvancesOnce
PROPERTIES
  ImplementsTrajectory
