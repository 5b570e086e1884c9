CONSTANTS
  Text = {x, y}
  NoText = NoText
  MaxVersion = 2
  MaxId = 3
  MaxWrites = 1
  MaxQueue = 2
  MaxEvents = 2
  MaxCrashes = 1
  Joined <- MCJoined
  Capacity = 2
  MaxInbox = 1
  MaxMessages = 5
SPECIFICATION MCSpec
\* A file may be left alone for ever, and the program ends.
CHECK_DEADLOCK FALSE
PROPERTY
  UnsavedWorkStays
