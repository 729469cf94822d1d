\* Default timing: an attempt is aborted well before its lease lapses.
SPECIFICATION FairSpec
CONSTANTS
  d1 = d1
  d2 = d2
  d3 = d3
  hostA = hostA
  hostB = hostB
  Deliveries = {d1, d2, d3}
  Targets = {hostA, hostB}
  TargetOf <- MCTargetOf
  Ticks = {t1, t2}
  Budgets = {1, 3}
  PerTargetConcurrency = 1
  MaxJobsPerTick = 2
  LeaseTime = 2
  DeliveryTimeout = 1
  BackoffBase = 2
  BackoffMax = 3
  MaxSchedules = 3
  MaxCrashes = 2
  NoJob = NoJob
INVARIANTS
  AttemptOwnsLease
  TargetCap
  OverrunBoundedByCrashes
PROPERTY
  RetrySettles
