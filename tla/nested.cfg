SPECIFICATION PlannedSpec
CONSTANTS
  Name <- MCName
  PluginType <- MCPluginType
  MaxCombinations = 2
  MaxCommandLines = 2
  MaxDepth = 8
  ReturnCodes = {0, 3}
  Configurations <- AcyclicSettings
  CommandLines <- NestedCommandLines
INVARIANTS
  TypeOK
  NothingAfterFailedTask
  ContextsMatchCalls
  NoStackOverflow
PROPERTIES
  ImplementsSchedule
  Termination
CHECK_DEADLOCK FALSE
