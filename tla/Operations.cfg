SPECIFICATION OperationsSpec
CONSTANTS
  Parts = {"shares", "telemetry", "sessions", "deployment", "edge", "storage keys", "heartbeat"}
  d1 = d1  d2 = d2  d3 = d3  r0 = r0  r1 = r1  r2 = r2
  foreign = foreign
  p1 = p1  p2 = p2  p3 = p3  p4 = p4  a1 = a1  a2 = a2  b1 = b1  b2 = b2
  Codes = {a1, a2}
  Sharers = {p1, p2}
  ShareNetworks = {b1}
  Skews <- SmallSkew
  ShareLifetime = 1
  CounterLifetime = 2
  ShareLimit = 2
  NetworkShareLimit = 2
  CodeAttempts = 2
  SweepLimit = 1
  MaxShareTime = 3
  Requests = {p1, p2}
  TelemetryNetworks = {b1}
  BatchSizes = {1}
  ClockSkews <- SmallSkew
  EventLimit = 4
  NetworkEventLimit = 3
  RowLifetime = 1
  DeleteLimit = 1
  MaxTelemetryTime = 3
  Browsers = {a1}
  Attempts = {b1, b2}
  Callbacks = {p1, p2}
  SignedRequests = {}
  Stranger = TRUE
  AttemptTtl = 1
  SessionTtl = 2
  UsedTtl = 1
  CleanupRows = 1
  MaxAuthTime = 2
  Deployers = {d1, d2, d3}
  Installed = r0
  Brings <- MCBrings
  Sound = {r0, r2}
  Needs <- MCNeeds
  MaxFailures = 2
  MaxKills = 1
  Tunnels = {1, 2}
  EarlierZones <- MCZones
  MaxEdgeFaults = 3
  StorageKeyIds = {p1, p2, p3, p4}
  OthersRules = {foreign}
  MaxKeyFaults = 2
  Refreshes = {p1, p2}
  MaxAge = 4
  MaxIoFaults = 2
CHECK_DEADLOCK FALSE
INVARIANTS StorageKeysSound EdgeSound
PROPERTIES TreesAndSchemaSound OutcomesTruthful StartedDeploymentsEnd HeartbeatHonest BacklogsLeave
