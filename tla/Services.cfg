SPECIFICATION ServicesSpec
CONSTANTS
  Parts = {"readiness", "admission", "shares", "telemetry", "keys", "sessions", "console"}
  admin = admin  script = script  worker1 = worker1
  k1 = k1  k2 = k2  good = good  other = other
  i1 = i1  i2 = i2  n1 = n1  n2 = n2
  p1 = p1  p2 = p2   a1 = a1  a2 = a2  b1 = b1  b2 = b2
  manage = manage  read = read
  Never = Never  None = None
  Keys = {k1, k2}
  Assets = {good, other}
  Versions = {1, 2}
  Callers = {admin, worker1}
  Worker = worker1
  Handlers = {1, 2}
  MaxIds = 2
  Kept = 1
  Scope = {"sync"}
  MaxCodes = 1
  Lifetime = 3
  CallTime = 1
  MaxTime = 3
  MaxFaults = 0
  Sources = {None}
  HasPlayabilityProbe = FALSE
  AdminRequests <- OneRequest
  Installs = {i1, i2}
  Networks = {n1, n2}
  Sizes = {1, 2}
  Creates = {4, 5}
  Earlier = {1, 2, 3}
  EarlierArchives <- Histories
  Quota <- SmallQuota
  Day = 1
  MaxClock = 1
  MaxMoves = 2
  Codes = {a1, a2}
  Sharers = {p1, p2}
  ShareNetworks = {b1, b2}
  Skews <- AnySkew
  ShareLifetime = 1
  CounterLifetime = 2
  ShareLimit = 2
  NetworkShareLimit = 1
  CodeAttempts = 2
  SweepLimit = 1
  MaxShareTime = 3
  Requests = {p1, p2}
  TelemetryNetworks = {b1, b2}
  BatchSizes = {1, 2}
  ClockSkews <- SmallSkew
  EventLimit = 4
  NetworkEventLimit = 3
  RowLifetime = 1
  DeleteLimit = 1
  MaxTelemetryTime = 2
  KeyIds = {a1, a2}
  Bearers = {b1, b2}
  Scopes = {manage, read}
  Manage = manage
  Terms = {1}
  MaxKeyTime = 1
  Browsers = {a1, a2}
  Attempts = {b1, b2}
  Callbacks = {p1, p2}
  SignedRequests = {k1}
  Stranger = FALSE
  AttemptTtl = 1
  SessionTtl = 2
  UsedTtl = 1
  CleanupRows = 1
  MaxAuthTime = 2
  Pages = {a1, a2}
  Intents = {b1, b2}
  MaxRevision = 4
  MaxLosses = 2
  MaxReloads = 1
CHECK_DEADLOCK FALSE
INVARIANTS QuotaHolds OnlyRestoredExceed EvictionSound SomeCreateProceeds
  SharesCounted CodeStandsForLifetime EventsAccounted
  ChildWithinParent KeysSound SessionsSound ChangeMadeOnce
PROPERTIES ReadyMeansServed
