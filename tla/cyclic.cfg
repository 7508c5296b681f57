SPECIFICATION Spec
CONSTANTS
  Name <- MCName
  PluginType <- MCPluginType
  MaxCombinations = 2
  MaxCommandLines = 2
  MaxDepth = 9
  ReturnCodes = {0, 3, 255}
  Configurations <- ReportingSettings
  CommandLines <- ReportingCommandLines
INVARIANTS
  ExitStatus
  LcovRounds
PROPERTIES
  NothingAfterMisuse
CHECK_DEADLOCK FALSE
