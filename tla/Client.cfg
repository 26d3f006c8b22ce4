SPECIFICATION MCSpec
CONSTANTS
  Builders = {b1, b2}
  Readings <- MCReadings
  Hops = 2
  Mtu = 1200
  SlotInterval = 300
  MaxSamples = 3
  MaxRecords = 4
  MaxBuilds = 1
  NCold = 2
  NWarm = 1
  Ports = {1, 2, 3, 4}
  Addrs = {a, b}
  NPaths = 2
  Depth = 1
  MaxQueue = 1
  Paced = {0}
  Requests = 3
  Replies = 1
  None = None
  Envs <- MCEnvs
  MaxTries = 2
  PipeCap = 1
  Chatter = 1
INVARIANTS EstimateSound SessionMoves InItsPlace DialsTheSubstrate OwnersClean
PROPERTIES FreshTransport BuildEnds ToLatestAddress Forwarded NobodyWaitsForever
CHECK_DEADLOCK FALSE
