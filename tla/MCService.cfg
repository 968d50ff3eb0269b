SPECIFICATION Spec
CONSTANTS
  Request = {r1, r2}
  Client = {x, y}
  Watched = x
  Auditor = {a}
  Slots = 1
  NetworkRequests = 2
  Submissions = 1
  Window = 4
  Second = 2
  MaxKeys = 1
  MaxLives = 2
INVARIANTS RateHeld RetryAfterHonest SlotsAccounted OneVerifier ServiceIsVerified
PROPERTIES EveryRequestEnds
CHECK_DEADLOCK FALSE
