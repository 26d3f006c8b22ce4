SPECIFICATION FairSpec
CONSTANTS
  Callers = {a, b}
  TimedCallers = {b}
  QueueDepth = 1
  Slots = {0, 2}
  Errors = {Malformed}
  Offers = 4
  Arrivals = 3
  None = None
INVARIANTS SendConserved RecvConserved ClosedIsLast
PROPERTIES Paced SendsGetThrough
