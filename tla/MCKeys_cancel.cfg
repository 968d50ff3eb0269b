SPECIFICATION Spec
CONSTANTS
  MaxKeys = 3
  MaxCrashes = 2
INVARIANT CancelledIsDiscarded
