CONSTANTS
  Docs = {d1, d2}
  Chars = {x, y}
  MaxLen = 1
  Kinds = {"hover", "formatting", "rename"}
  Budgets <- MCBudgets
  MaxSessions = 2
  MaxRestarts = 1
  None = None
SYMMETRY Letters
SPECIFICATION Spec
CHECK_DEADLOCK FALSE
INVARIANT ServerFollowsTheBuffers
INVARIANT VersionNamesOneText
INVARIANT WaitsCanEnd
