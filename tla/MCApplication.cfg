SPECIFICATION Spec
CONSTANTS
  Dirs = {"top", "proj", "sub"}
  Up <- MCUp
  Where <- MCWhere
  FileOrder <- MCFileOrder
  Home <- MCHome
  NoPath = "none"
  ArgLists <- MCArgs
  Specs <- MCSpecs
  MaxRecent = 2
  MaxLaunches = 3
  MaxActs = 3
  KeymapFiles <- MCKeymaps
  SettingsFiles <- MCSettings
  MaxOverlays = 2
  MaxReloads = 1
  MaxFileEdits = 1
  TabWidth = 4
  Rows <- MCRows
  HelpRows <- MCHelp
  Screens <- MCScreens
  Letters = {"a", "b", "code"}
  MaxFilter = 2
  FirstTexts <- MCTexts
  Typing = {"t", "w", "n"}
  Areas <- MCAreas
  MaxGrowth = 2
  MaxMarks = 2
  PaneSizes <- MCPaneSizes
  Sayings <- MCSayings
  MaxGrids = 2
  MaxSaid = 2
  MaxEntry = 2
  MaxProposals = 2
  GridSizes <- MCGridSizes
  MaxHistory = 2
  Strides <- MCStrides
  FrameStreams <- MCFrameStreams
  TextStreams <- MCTextStreams
  CargoStreams <- MCCargoStreams
  ByteStreams <- MCByteStreams
  ProblemLimit = 2
  CaptureLimit = 4
  TaskReports <- MCTaskReports
  Publications <- MCPublications
  Reach <- MCReach
  FileLines <- MCFileLines
  MaxNews = 3
  MaxWalks = 2
  ContextLimit = 20
  TaskLimit = 1
  Wording <- MCWording
  Knowledge <- MCKnowledge
  Roots <- MCRoots
  Extensions = {"rs", "js", "ts", "py", "java", "md"}
  Commands <- MCCommands
  MaxScripts = 2
  MaxSteps = 3
  AgentLines <- MCAgentLines
  SessionModes <- MCSessionModes
  TranscriptLimit = 2
  MaxTurns = 3
\* The program ends, and so does a stream.
CHECK_DEADLOCK FALSE
INVARIANTS
  SessionComesBack
  WorkspaceIsAsConfigured
  HighlightIsWhatEnterTakes
  EditorShowsTheBuffer
  PanesShowWhatTheyMust
  ChunkingIsInvisible
  ReportsReachTheEditor
  AgentIsToldAndHeard
PROPERTIES
  KeysActWhereTheyAreAimed
  MovesMarkBothEnds
