CONSTANTS
  MaxBlocks = 4
  EraseSize = 2
  FlashSize = 12
  MaxVols = 2
  Device <- MCDevice
  Data <- MCData
  Erased = Erased
  Torn = Torn
  UbiHeader = UbiHeader
  Plans <- MCPlans
  Chips <- MCChips
SPECIFICATION FairSpec
INVARIANTS Careful VerifiedPrefix UbiPrefix
PROPERTIES EnvBlockKept Terminates
CHECK_DEADLOCK FALSE
