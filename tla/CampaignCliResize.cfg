\* A pool of two workers scaled down to one.
SPECIFICATION Spec
CONSTANTS
  RingSize = 3
  MaxExecutions = 2
  RingSlot <- MCRingSlot
  NoFile = NoFile
  Processes = {0, 1}
  TotalSeeds = 4
  Pools = {1, 2}
  Budgets = {5}
  CheckpointInterval = 2
  MaxCrashes = 0
  MaxLostWrites = 0
INVARIANTS
  CompletedIsComplete
