\* A delivery that was enqueued and the process that dies.
SPECIFICATION Spec
CONSTANTS
  Deliveries = {d1, d2}
  d1 = d1
  p1 = p1
  host = host
  Targets = {host}
  TargetOf <- MCTargetOf
  Passes = {p1, p2}
  Budgets = {1, 2}
  PerTargetConcurrency = 1
  MaxJobsPerTick = 1
  LeaseTime = 2
  DeliveryTimeout = 1
  BackoffBase = 1
  BackoffMax = 1
  Concurrency = 1
  PerTarget = 2
  MaxEntries = 2
  ParkAfterRounds = 1
  DrainBackoffBase = 1
  DrainBackoffMax = 1
  MaxSchedules = 2
  MaxAdds = 3
  MaxCrashes = 1
  Loads <- MCLoads
  NoJob = NoJob
  NoEntry = NoEntry
INVARIANT
  SurvivesRestart
