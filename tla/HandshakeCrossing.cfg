SPECIFICATION SessionsSpec
CONSTANTS
  Ids <- MCIds
  Masks <- MCMasks
  Params = {p, q}
  Sessions = {}
  Forgets = {}
  Disabled = disabled
  StoreLen = 430
  p = p
  q = q
  disabled = disabled
  ClientConfigs <- MCClients
  ServerConfigs <- MCServers
  Tls12Suites = {"gcm"}
  CacheSize = 1
  OtherIds = {99}
  MaxHandshakes = 2
  MaxData = 1
INVARIANT HelloRequestDiscarded
CHECK_DEADLOCK FALSE
