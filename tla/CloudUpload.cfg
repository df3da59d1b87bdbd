CONSTANTS
  Confs <- MCConfs
  Servers <- MCServers
  Predefined = 2
  Answers <- MCAnswers
  Replies <- MCReplies
  NBlocks = 3
  MAX_NSERVERS = 3
  MAX_ARECORDS = 2
SPECIFICATION Spec
INVARIANTS Uploaded
CHECK_DEADLOCK FALSE
