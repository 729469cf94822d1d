\* Two workers, every range of a ring of three slots, and a late worker's token.
SPECIFICATION Spec
CONSTANTS
  RingSize = 3
  Workers = {w1, w2}
  Ttls = {1, 2}
  Seeds = {0, 1}
  RingSlot <- MCRingSlot
  U64Max = 3
INVARIANTS
  LeasesDisjoint
  SoleWriter
PROPERTIES
  FencedForever
  WritesInGenerationOrder
