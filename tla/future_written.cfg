SPECIFICATION Spec
CONSTANTS
  r1 = r1
  r2 = r2
  Resource = {r1, r2}
  Worker = {w1, w2, w3}
  Closer = {}
  Target <- NoTargets
  All = All
  Nil = Nil
  MaxBroadcast = 2
SYMMETRY SymmetryAll
INVARIANTS FutureMeansWritten
CHECK_DEADLOCK FALSE
