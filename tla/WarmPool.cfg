SPECIFICATION Spec
CONSTANTS
  Circuits = {c1, c2, c3}
  Requests = {r1, r2}
  NumFronts = 1
  GoodFronts = {}
  Target = 2
  MaxUses = None
  MaxAge = 2
  TickLen = 1
  DrainTimeout = 1
  SampleEvery = 1
  Measured = TRUE
  CounterMod = 2
  CursorMod = 1
  UseBound = 2
  None = None
SYMMETRY Interchangeable
INVARIANTS ActiveExact MinGrace ReadyBounded RotationAccounting
PROPERTY KeepsPromise
