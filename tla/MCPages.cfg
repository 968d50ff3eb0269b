SPECIFICATION Spec
CONSTANTS
  Name = {1, 2}
  Subject = {s1, s2}
  Limit = {1, 2}
  TTL = 1
  MaxLog = 3
  MaxBorn = 3
  MaxClock = 2
  MaxFaults = 2
INVARIANTS WalkExact RefusalJustified
CHECK_DEADLOCK FALSE
