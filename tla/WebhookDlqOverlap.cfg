\* Two overlapping drains, one replay at a time each, over two entries of one host.
SPECIFICATION FairSpec
CONSTANTS
  e1 = e1
  e2 = e2
  e3 = e3
  hostA = hostA
  hostB = hostB
  Entries = {e1, e2}
  Hosts = {hostA, hostB}
  HostOf <- MCHostOf
  Drains = {k1, k2}
  Concurrency = 1
  PerTarget = 2
  MaxEntries = 3
  ParkAfterRounds = 2
  DrainBackoffBase = 1
  DrainBackoffMax = 2
  MaxAdds = 1
  MaxCrashes = 1
  NoEntry = NoEntry
INVARIANTS
  OneReplayPerEntry
  SpentEntriesParked
PROPERTIES
  NoDeadLetterLost
  EntrySettles
