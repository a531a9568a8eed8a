SPECIFICATION CVSpec
CONSTANTS
  Box = {b1, b2, b3, b4, b5}
  MaxArray = 2
  MaxAbandoned = 2
SYMMETRY Symmetry
INVARIANTS
  LeaksOnlyAbandoned
  NoDangling
