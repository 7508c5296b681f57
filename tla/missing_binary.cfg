SPECIFICATION Spec
CONSTANTS
  Name <- MCName
  PluginType <- MCPluginType
  MaxCombinations = 2
  MaxCommandLines = 2
  MaxDepth = 8
  ReturnCodes = {0, 3}
  Configurations <- NestedSettings
  CommandLines <- NestedCommandLines
INVARIANT
  KeepGoingExecutesAll
CHECK_DEADLOCK FALSE
