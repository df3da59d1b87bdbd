CONSTANTS
  Keys <- PlainKeys
  Values <- MCValues
  InitEnvs <- MCInitEnvs
  EnvLen = 3
  PerBlock = 3
  Lost = Lost
SPECIFICATION FairSpec
INVARIANTS Sound
PROPERTIES StoreSpec Served
CHECK_DEADLOCK FALSE
