SPECIFICATION BridgeFairSpec
CONSTANTS
  Callers = {out}
  TimedCallers = {}
  QueueDepth = 1
  Slots = {0, 1}
  Errors = {e}
  Offers = 3
  Arrivals = 2
  Clients = {a}
  SockBuf = 2
  outTask = out
  None = None
PROPERTY TornDown
