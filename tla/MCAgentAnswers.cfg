SPECIFICATION FairSpec
CONSTANTS
  Commands = {"make"}
  NoCommand = NoCommand
  Safe = {}
  Kinds = {"read", "create", "output", "wait", "kill", "release"}
  Offers = {{"allow_once"}}
  Acts = {"close", "restart"}
  MaxCalls = 3
  MaxOf <- MCMaxOf
  MaxSessions = 1
  MaxAsks = 1
  MaxMoves = 4
  MaxEvents = 1
INVARIANTS
  HeldCallsCanEnd
PROPERTIES
  EveryCallIsAnswered
CHECK_DEADLOCK FALSE
