SPECIFICATION Spec
CONSTANTS
  Nil = Nil
  Torn = Torn
  Trainers = {t1}
  Versions = {v1, v2}
  MaxEdits = 1
  MaxKills = 0
  MaxFaults = 0
  MaxPowerLosses = 0
INVARIANTS
  CacheHoldsItsKey
