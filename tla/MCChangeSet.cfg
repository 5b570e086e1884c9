CONSTANTS
  Char = {a, b}
  MaxLen = 3
  MaxCalls = 5
  MaxComposed = 2
SPECIFICATION Spec
SYMMETRY CharSymmetry
CHECK_DEADLOCK FALSE
INVARIANTS
  ReportsFollowText
  AlgebraIsSound
