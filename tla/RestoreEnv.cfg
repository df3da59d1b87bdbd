CONSTANTS
  MaxBlocks = 5
  EraseSize = 1
  FlashSize = 6
  MaxVols = 1
  Device <- MCDevice
  Data <- MCData
  Erased = Erased
  Torn = Torn
  UbiHeader = UbiHeader
  VolData = VolData
  OldData = OldData
  OldEnv = OldEnv
  BadData = BadData
  TwoBlockEnv = TRUE
  MaxRuns = 2
  Images <- MCImages
  EnvUnits <- MCEnvUnits
SPECIFICATION Spec
PROPERTY EnvKept
CHECK_DEADLOCK FALSE
