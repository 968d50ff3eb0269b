SPECIFICATION Spec
CONSTANTS
  Proc = {p, q}
  OldFiles <- AllFiles
  Attempts = 2
  MaxLog = 4
  MaxCrashes = 1
INVARIANTS RefusedForCause ReadyIsComplete
PROPERTIES LiveRowsKept EventuallyReady
CHECK_DEADLOCK FALSE
