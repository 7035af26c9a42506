SPECIFICATION FairSpec
CONSTANTS
  NoValue = NoValue
  Models <- ThreeModels
  Listed <- FirstTwo
  NamedAfter <- FileNames
  Figures <- Typed
  Files <- ModelFiles
  MaxKeyBytes = 4
  MaxStringBytes = 8
  MaxKvCount = 8
  MaxArrayElements = 4
  UserArguments <- Arguments
  BenchFlags <- BenchMay
  LaunchFlags <- ToolMay
  MaxProfiles = 1
INVARIANTS TypeOK MetadataIsTheFiles ServedAsMeasured
PROPERTIES EndOfInputEnds
