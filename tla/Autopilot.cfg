SPECIFICATION FairSpec
CONSTANTS
  g1 = g1
  g2 = g2
  g3 = g3
  Gateways = {g1, g2, g3}
  Peers <- SelfAndTwoPeers
  Self = g3
  Ttl = 6
  FetchMax = 1
  None = None
INVARIANT StaysFresh
PROPERTIES CrashedExpire Joins
