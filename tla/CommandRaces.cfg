SPECIFICATION Spec
CONSTANTS
  admin = admin  script = script  worker1 = worker1
  k1 = k1  k2 = k2  good = good  other = other
  Never = Never  None = None
  Keys = {k1, k2}
  Assets = {good, other}
  Versions = {1, 2}
  Callers = {admin, script, worker1}
  Worker = worker1
  Handlers = {1, 2}
  MaxIds = 2
  Kept = 0
  Scope = {"reuse"}
  MaxCodes = 1
  Lifetime = 3
  CallTime = 1
  MaxTime = 1
  MaxFaults = 1
  Sources = {None}
  HasPlayabilityProbe = FALSE
  AdminRequests <- CodeRequests
CHECK_DEADLOCK FALSE
SYMMETRY AdminSymmetry
INVARIANTS AuditChained AnswersTruthful StateSignable
PROPERTIES ImplementsCommandLog
