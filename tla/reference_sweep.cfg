CONSTANTS
  r1 = r1
  r2 = r2
  s1 = s1
  s2 = s2
  Row = {r1, r2}
  BigRow = {r1}
  Sweeper = {s1, s2}
  BatchSize = 2
  MaxAttempts = 3
  BaseBackoff = 1
  Ttl = 2
  MaxBackoff = 1
  LastArrival = 1
  LastInstant = 3
  MaxErrors = 1
  None = None
SPECIFICATION FairSpec
INVARIANTS SweepTypeOK RetryWithinReach
PROPERTIES GivesUpRightly SweepSettles
CHECK_DEADLOCK FALSE
