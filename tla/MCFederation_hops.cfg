SPECIFICATION Spec
CONSTANTS
  A = A  B = B  C = C  x = x  y = y  e = e  NoLog = NoLog
  Registry = {A, B, C}
  Guarded = {}
  Feeds <- TwoHops
  Item <- OneAtA
  Endorser <- NoneEndorsed
  EndorsedUntil = 0
  MaxTorn = 1
  MaxRestores = 0
INVARIANTS ImportsVerify
CHECK_DEADLOCK FALSE
