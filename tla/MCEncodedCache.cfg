SPECIFICATION FairSpec
CONSTANTS
  Nil = Nil
  Torn = Torn
  Trainers = {t1, t2}
  Versions = {v1, v2}
  MaxEdits = 2
  MaxKills = 2
  MaxFaults = 1
  MaxPowerLosses = 1
INVARIANTS
  TypeOK NeverCorrupt SameKeySameTensors
PROPERTIES
  CompletePairIsFinal LoadsFinish
