SPECIFICATION Spec
CONSTANTS
  Nodes = {n1, n2}
  Keys = {k1}
  Requests = {r1, r2, r3}
  Faults = {}
  MaxRestarts = 1
  MaxLog = 9
SYMMETRY Symmetry
INVARIANTS MutualExclusion
CHECK_DEADLOCK FALSE
