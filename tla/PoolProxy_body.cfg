SPECIFICATION ProxySpec
CONSTANTS
  Circuits = {c1, c2, c3, c4}
  Requests = {r1, r2}
  NumFronts = 1
  GoodFronts = {}
  Target = 1
  MaxUses = 1
  MaxAge = None
  TickLen = 1
  DrainTimeout = 2
  SampleEvery = 1
  Measured = FALSE
  CounterMod = 1
  CursorMod = 1
  UseBound = 2
  None = None
SYMMETRY Interchangeable
INVARIANT InFlightKept
