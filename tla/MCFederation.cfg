SPECIFICATION FairSpec
CONSTANTS
  A = A  B = B  C = C  x = x  y = y  e = e  NoLog = NoLog
  Registry = {A, B}
  Guarded = {A, B}
  Feeds <- OneHop
  Item <- TwoAtA
  Endorser <- YEndorsed
  EndorsedUntil = 0
  MaxTorn = 1
  MaxRestores = 1
INVARIANTS PlainImportsVerify HighWaterCovered ReadyCoversCheckpoint OnlyLossIsRefused
PROPERTIES CatchUp
CHECK_DEADLOCK FALSE
