SPECIFICATION HealthSpec
CONSTANTS
  b1 = b1  b2 = b2  u1 = u1  u2 = u2  u3 = u3  up = up  p1 = p1  p2 = p2
  NodeTag = NodeTag  Nobody = Nobody  NoPass = NoPass
  Root <- MCRoot
  Rec = {b1, b2, u1, u2}
  Body = {b1, b2}
  Proc = {p1, p2}
  Scope = {}
  Offers <- MCOneOffer
  TTL = 1
  MinRetention = 1
  MaxWait = 0
  Interval = 1
  MaxLog = 3
  MaxClock = 0
  MaxFaults = 1
  FaultKinds = {"truncate", "prune", "record", "hash", "dropBoundary", "root", "frontier", "walk"}
SYMMETRY Interchangeable
INVARIANTS NoFalseAlarm
PROPERTIES LatchSticks LatchedNeverCommits AppendsAttestTheirHead
