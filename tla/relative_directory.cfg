SPECIFICATION Spec
CONSTANTS
  CurrentPath <- MCCurrentPath
  SettingsDirectory <- MCSettingsDirectory
  Roots <- MCRoots
  PWD = "PWD"
  PATH = "PATH"
  NameOrder <- MCNameOrder
  NotSet = NotSet
  ProcessEnvironment <- MCProcessEnvironment
  Programs <- MCPrograms
  Reference <- MCReference
  Space = "_"
  Illegal <- MCIllegal
  Chains <- MCChains
INVARIANT RelativeToSettings
