SPECIFICATION Spec
CONSTANTS
  Commands = {"make"}
  NoCommand = NoCommand
  Safe = {"make"}
  Kinds = {"permission", "create", "wait"}
  Offers = {{"allow_once", "reject_once"}, {"allow_always"}}
  Acts = {"session", "mode"}
  MaxCalls = 3
  MaxOf <- MCMaxOf
  MaxSessions = 2
  MaxAsks = 2
  MaxMoves = 4
  MaxEvents = 1
INVARIANTS
  TypeOK
  LaunchesApproved
  WireSaysWhatWasDecided
  LiveTerminalsAreCurrent
CHECK_DEADLOCK FALSE
