CONSTANTS
  processed1 = processed1
  changed1 = changed1
  changed2 = changed2
  r1 = r1
  r2 = r2
  Event = {processed1, changed1, changed2}
  Relay = {r1, r2}
  BatchSize = 2
  MaxFailures = 1
  MaxCrashes = 1
  Stamp <- MCStamp
  Aggregate <- MCAggregate
SPECIFICATION FairSpec
INVARIANTS PublishedWasSent ClaimsAreExclusive CopiesBounded
PROPERTIES NeverSentAgain EverythingPublished
CHECK_DEADLOCK FALSE
