SPECIFICATION SessionsSpec
CONSTANTS
  Ids <- MCIds
  Masks <- MCMasks
  Params = {p, q}
  Sessions <- MCSessions
  Forgets = {4}
  Disabled = disabled
  StoreLen = 430
  p = p
  q = q
  disabled = disabled
  ClientConfigs <- MCClients
  ServerConfigs <- MCServers
  Tls12Suites = {"gcm"}
  CacheSize = 1
  OtherIds = {99}
  MaxHandshakes = 3
  MaxData = 1
INVARIANT StoreSound
INVARIANT Agree
INVARIANT RememberedWhole
INVARIANT FailuresExplained
PROPERTY RefinesCache
PROPERTY HandshakeEnds
CHECK_DEADLOCK FALSE
