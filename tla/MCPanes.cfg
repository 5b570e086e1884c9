CONSTANTS
  SearchLetters = {"a", "b"}
  FileNames <- MCNames
  DiskTexts <- MCDisk
  OpenTabs <- MCTabs
  LiveTexts <- MCLive
  ResultLimit = 3
  VisibleLimit = 3
  BatchSize = 2
  MaxQuery = 2
  MaxSearchKeys = 5
  Paths = {1, 2}
  InitialRecords = {"clean", "unmerged"}
  MaxGitKeys = 4
  MaxChanges = 1
  Names = {1, 2}
  Hidden <- MCHidden
  FirstDisks <- MCDisks
  MaxNodes = 8
  MaxTreeKeys = 3
  MaxDiskOps = 2
  MaxPending = 3
  Char = {"a", "A", "b", "n", "Idot"}
  OnDisk <- MCOnDisk
  Queries <- MCQueries
  Fillers <- MCFillers
  Typed = {"a"}
  Height = 2
  MaxTabs = 2
  MaxStrokes = 2
SPECIFICATION Spec
CHECK_DEADLOCK FALSE
INVARIANT SearchShowsWhatIsThere
INVARIANT GitViewsAreCurrent
INVARIANT TreeIsTheDisk
INVARIANT FindVisitsEveryMatch
