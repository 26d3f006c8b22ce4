SPECIFICATION FrontsSpec
CONSTANTS
  Envs <- MCSidecarOnly
  MaxTries = 1
  PipeCap = 1
  Chatter = 1
INVARIANT SidecarWins
CHECK_DEADLOCK FALSE
