SPECIFICATION ImportSpec
CONSTANTS
  b1 = b1  b2 = b2  u1 = u1  u2 = u2  u3 = u3  up = up  p1 = p1  p2 = p2
  NodeTag = NodeTag  Nobody = Nobody  NoPass = NoPass
  Root <- MCRoot
  Rec = {b1, u1, u2, u3}
  Body = {b1}
  Proc = {p1, p2}
  Scope = {}
  Offers <- MCOffers
  TTL = 1
  MinRetention = 1
  MaxWait = 0
  Interval = 1
  MaxLog = 3
  MaxClock = 0
  MaxFaults = 0
  FaultKinds = {}
INVARIANTS IntactStoreVerifies VerdictOnDurablePrefix HighWaterImpliesImported ImportedOnce
PROPERTIES AppendOnly HighWaterNeverLowered ImplementsLog
