SPECIFICATION Spec
CONSTANTS
  u1 = u1  u2 = u2  u3 = u3  u4 = u4  c1 = c1  c2 = c2
  NoUpload = NoUpload
  Uploads = {u1, u2}
  Preloaded = {u1}
  Callers = {c1}
  Operations = {"create", "partUrl", "complete"}
  PreverifyAtStart = {TRUE}
  DeletingLease = 1
  StaleLease = 2
  UploadWindow = 3
  VerifyLifetime = 4
  Retention = 5
  CallTime = 1
  MaxAttempts = 2
  VerifyBackoff = 1
  DeletionBackoff = 1
  VerifyLimit = 2
  VerifyDeadline = 1
  BodylessAnswers = FALSE
  MaxFaults = 1
INVARIANTS OneVerificationPerArchive
PROPERTIES CapacitySound
