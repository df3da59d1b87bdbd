\* A program with up to three tasks, of which the first is traced from its start.
CONSTANTS
  Pids = {1, 2, 3}
  Root = 1
  Files = {"i2c"}
  Std = "std"
  NumFds = 2
  MAX_MON_FDS = 1
  MaxCalls = 4
  Worlds = {{"kill", "guess"}, {"early", "kill", "unmap"}, {"fork", "reorder"}}
SPECIFICATION Spec
INVARIANTS TablesSound Followed Attribution
CHECK_DEADLOCK FALSE
