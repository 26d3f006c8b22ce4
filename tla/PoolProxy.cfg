SPECIFICATION ProxyFairSpec
CONSTANTS
  Circuits = {c1, c2, c3, c4}
  Requests = {r1}
  NumFronts = 2
  GoodFronts = {1}
  Target = 1
  MaxUses = 1
  MaxAge = None
  TickLen = 1
  DrainTimeout = 1
  SampleEvery = 1
  Measured = FALSE
  CounterMod = 1
  CursorMod = 2
  UseBound = 1
  None = None
INVARIANT LeasesMatchService
PROPERTIES Drains Heals
