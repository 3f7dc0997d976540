SPECIFICATION Spec
CONSTANTS
  Nil = Nil
  c1 = c1
  c2 = c2
  Workers = {w1, w2}
  ScanLimit = 10
  MaxMishaps = 0
  MaxStep = 2
  Graphs <- CompetingGraphs
SYMMETRY Symmetry
INVARIANTS
  TypeOK PortOnPath
PROPERTIES
  ImplementsTrajectory
