SPECIFICATION Spec
CONSTANTS
  Nil = Nil
  c1 = c1
  c2 = c2
  config = config
  adapter1 = adapter1
  adapter2 = adapter2
  Writers = {w1, w2}
  Checkpoints = {c1, c2}
  ShardsOf <- SharedConfig
  InitialRoots = {"missing", "durable"}
  MaxKills = 2
  MaxPowerLosses = 2
SYMMETRY Symmetry
INVARIANTS
  TypeOK NamedLoadable ManifestLast NoCollision ExportWhole
PROPERTIES
  SettledForGood
