SPECIFICATION Spec
CONSTANTS
  Name <- Names
  Plan <- PlanTwo
  AutoName <- AutoNames
  FirstFlags <- FlagSets
  MaxHold = 1
INVARIANTS
  NeverDereferencesDead
  PollsOpenSockets
  ReadUnlessOpened
  FlagsRestored
CHECK_DEADLOCK FALSE
