SPECIFICATION FairSpec
CONSTANTS
  Tags = {t1, t2}
  MaxFds = 2
  Depth = 1
  SockBuf = 1
  Msgs = 3
  Answers = 4
  None = None
INVARIANTS OneSourcePerClient OnceToOwner
PROPERTY NobodyHeldUp
CHECK_DEADLOCK FALSE
