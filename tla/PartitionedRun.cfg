\* Two or three workers take turns on one checkpoint, and one of their processes
\* dies; or two coverage maps are marked and merged in every order.
SPECIFICATION RingSpec
CONSTANTS
  RingSize = 5
  MaxExecutions = 3
  Processes = {p1}
  TotalSeeds = 4
  RingSlot <- MCRingSlot
  Pools = {2, 3}
  MaxCrashes = 1
  Maps = {a, b}
INVARIANTS
  CoverageSound
  ExecutedOnce
  NoHole
  Normalised
  CoverageExact
  UncoveredExact
  OneWorkerLeft
