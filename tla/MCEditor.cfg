CONSTANTS
  k = k
  x = x
  Char <- MCChar
  KeyText <- MCKeyText
  OtherText <- MCOtherText
  Origins <- MCOrigins
  Sources = {"Keyboard", "Agent"}
  Keyboard = "Keyboard"
  MaxLen = 3
  MaxVersion = 3
  MaxWrites = 0
  MaxGroups = 4
  MaxPending = 1
  Selections <- MCSelections
  MaxDecorations = 1
SPECIFICATION MCSpec
CHECK_DEADLOCK FALSE
INVARIANTS
  CleanMeansOnDisk
  PendingCatchesUp
  CleanMarkerCoversItsText
PROPERTIES
  ImplementsUndoSteps
