SPECIFICATION MCSpec
CONSTANTS
  Callers = {task}
  TimedCallers = {}
  QueueDepth = 1
  Slots = {0, 1}
  Errors = {e}
  Offers = 3
  Arrivals = 2
  Clients = {a}
  SockBuf = 2
  outTask = task
  None = None
  Senders = {s1, s2}
  toTcp = toTcp
  Sizes = {0, 2, 3}
  Max = 2
  Window = 2
  UdpBuf = 1
  MaxFrames = 2
INVARIANT NothingLostBehindSocket
PROPERTIES CarriedBothWays FramesKept UpFlows Closes
