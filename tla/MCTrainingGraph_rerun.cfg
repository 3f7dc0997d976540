SPECIFICATION RerunSpec
CONSTANTS
  Nil = Nil
  c1 = c1
  c2 = c2
  Workers = {w1, w2}
  ScanLimit = 3
  MaxMishaps = 1
  MaxStep = 3
  Graphs <- RerunGraphs
INVARIANTS
  StepsRerunBounded RecoveryInAdvance
PROPERTIES
  RerunsFinish RerunsCommit
