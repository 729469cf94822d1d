\* One worker, or a pool of two on one file, with every kind of fault and a budget
\* that is used up or not.
SPECIFICATION Spec
CONSTANTS
  RingSize = 3
  MaxExecutions = 3
  RingSlot <- MCRingSlot
  NoFile = NoFile
  Processes = {0, 1}
  TotalSeeds = 4
  Pools = {1, 2}
  Budgets = {2, 5}
  CheckpointInterval = 2
  MaxCrashes = 1
  MaxLostWrites = 1
INVARIANTS
  CheckpointBehindWork
  CompletedNotReexecuted
  LossBounded
  CompleteWithoutSwitch
