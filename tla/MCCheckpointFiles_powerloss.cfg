SPECIFICATION Spec
CONSTANTS
  Nil = Nil
  c1 = c1
  c2 = c2
  config = config
  adapter1 = adapter1
  adapter2 = adapter2
  Writers = {w1}
  Checkpoints = {c1}
  ShardsOf <- OneShard
  InitialRoots = {"durable"}
  MaxKills = 1
  MaxPowerLosses = 1

INVARIANTS
  NamedSurvivesPowerLoss
