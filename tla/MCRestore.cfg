CONSTANTS
  MaxBlocks = 5
  EraseSize = 1
  FlashSize = 6
  MaxVols = 1
  Device <- MCDevice
  Data <- MCData
  Erased = Erased
  Torn = Torn
  UbiHeader = UbiHeader
  VolData = VolData
  OldData = OldData
  OldEnv = OldEnv
  BadData = BadData
  TwoBlockEnv = FALSE
  MaxRuns = 2
  Images <- MCImages
  EnvUnits <- MCEnvUnits
SPECIFICATION Spec
INVARIANTS Sound RestoredInPlace
PROPERTIES EnvKept NoCorruptBlock
CHECK_DEADLOCK FALSE
