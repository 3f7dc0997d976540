SPECIFICATION RetrySpec
CONSTANTS
  Nil = Nil
  Workers = {w1, w2}
  Configs = {c1}
  Requests = {1}
  Notes = {n1}
  Interval = 2
  Accumulation = 2
  MaxStep = 1
  MaxCrashes = 1
  MaxCancels = 1
  MaxFaults = 0
PROPERTIES
  CallsReturn RetriesFinish
