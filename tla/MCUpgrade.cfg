CONSTANTS
  MaxBlocks = 5
  EraseSize = 2
  FlashSize = 16
  MaxVols = 1
  Device <- MCDevice
  Keys <- MCKeys
  Values <- MCValues
  Data <- MCData
  Erased = Erased
  Torn = Torn
  UbiHeader = UbiHeader
  Bundles <- MCBundles
  OldEnv <- MCOldEnv
  BootUnits = {0, 1, 2, 3}
  EnvBase = 4
  MaxRuns = 2
SPECIFICATION Spec
INVARIANTS Sound Booted
PROPERTIES BootloaderKept
CHECK_DEADLOCK FALSE
