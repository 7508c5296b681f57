SPECIFICATION PluginsSpec
CONSTANTS
  CurrentPaths <- MCCurrentPaths
  Homes <- MCHomes
  NotSet = NotSet
  SettingsIn <- MCSettingsIn
  PathLists <- MCPathLists
  InstallPath <- MCInstallPath
  Content <- MCContent
  BuiltIn = {"pmd", "lcov"}
  Denied <- MCDenied
  Sections <- MCSections
  Context <- MCContext
  Nil = Nil
  Combinations = 2
  MaxCalls = 4
INVARIANTS
  NearestSettingsFile
  PluginsByPrecedence
  PluginsAreScripts
  ExecutedAsCalled
