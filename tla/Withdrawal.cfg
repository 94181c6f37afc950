SPECIFICATION FairSpec
CONSTANTS
  admin = admin  script = script  worker1 = worker1
  k1 = k1  k2 = k2  good = good  other = other
  Never = Never  None = None
  Keys = {k1, k2}
  Assets = {good, other}
  Versions = {1, 2}
  Callers = {admin, worker1}
  Worker = worker1
  Handlers = {1, 2}
  MaxIds = 5
  Kept = 3
  Scope = {"sync"}
  MaxCodes = 1
  Lifetime = 3
  CallTime = 1
  MaxTime = 0
  MaxFaults = 1
  Sources <- GoodSource
  HasPlayabilityProbe = FALSE
  AdminRequests <- OneRequest
CHECK_DEADLOCK FALSE
PROPERTIES WithdrawnReleaseLeaves EveryRequestEnds
