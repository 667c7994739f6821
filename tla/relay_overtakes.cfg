CONSTANTS
  processed1 = processed1
  changed1 = changed1
  changed2 = changed2
  r1 = r1
  r2 = r2
  Event = {processed1, changed1, changed2}
  Relay = {r1}
  BatchSize = 2
  MaxFailures = 0
  MaxCrashes = 0
  Stamp <- MCStamp
  Aggregate <- MCAggregate
SPECIFICATION Spec
INVARIANT AggregateOrder
CHECK_DEADLOCK FALSE
