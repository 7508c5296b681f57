SPECIFICATION Spec
CONSTANTS
  Name <- MCName
  PluginType <- MCPluginType
  MaxCombinations = 2
  MaxCommandLines = 2
  MaxDepth = 5
  ReturnCodes = {0, 3}
  Configurations <- TargetSettings
  CommandLines <- TargetCommandLines
INVARIANT
  ExitStatus
CHECK_DEADLOCK FALSE
