SPECIFICATION SubmitSpec
CONSTANTS
  b1 = b1  b2 = b2  u1 = u1  u2 = u2  u3 = u3  up = up  p1 = p1  p2 = p2
  NodeTag = NodeTag  Nobody = Nobody  NoPass = NoPass
  Root <- MCRoot
  Rec = {b1, b2}
  Body = {b1, b2}
  Proc = {p1, p2}
  Scope = {k1}
  Offers = {}
  TTL = 3
  MinRetention = 2
  MaxWait = 1
  Interval = 1
  MaxLog = 2
  MaxClock = 5
  MaxFaults = 1
  FaultKinds = {"frontier", "answer"}
SYMMETRY Interchangeable
INVARIANTS TypeOK RetentionHolds AnswersDurable
