CONSTANTS
  l1 = l1
  l2 = l2
  hl = hl
  gl = gl
  Char <- MCChar
  Origins <- MCOrigins
  HumanLines = {hl}
  AgentLines = {gl}
  Sources = {"Keyboard", "Agent"}
  Keyboard = "Keyboard"
  MaxLen = 3
  MaxVersion = 2
  MaxId = 2
  MaxMoves = 3
  MaxTouched = 2
SPECIFICATION Spec
CHECK_DEADLOCK FALSE
INVARIANT
  MarkersAreHunks
PROPERTIES
  AcceptKeepsLinesApart
  AcceptIsExactAndOneStep
  PermissionIsTheGate
