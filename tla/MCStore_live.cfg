SPECIFICATION LiveSpec
CONSTANTS
  b1 = b1  b2 = b2  u1 = u1  u2 = u2  u3 = u3  up = up  p1 = p1  p2 = p2
  NodeTag = NodeTag  Nobody = Nobody  NoPass = NoPass
  Root <- MCRoot
  Rec = {b1, b2}
  Body = {b1, b2}
  Proc = {p1}
  Scope = {}
  Offers = {}
  TTL = 1
  MinRetention = 1
  MaxWait = 0
  Interval = 1
  MaxLog = 2
  MaxClock = 0
  MaxFaults = 2
  FaultKinds = {"truncate", "prune", "record", "hash", "dropBoundary", "root", "frontier"}
INVARIANTS SnapshotsConsistent
PROPERTIES DamageIsNoticed StaleVerdictRecovers
