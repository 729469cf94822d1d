\* Three calls that may share a key or an id, late reports, a restart, two days.
SPECIFICATION Spec
CONSTANTS
  Daily = {"seeds"}
  Limits <- MCLimits
  DefaultSeeds <- MCDefaultSeeds
  OpenAt <- MCOpenAt
  MaxWorkers = 8
  MaxCount = 8
  Unlimited = Unlimited
  Absent = Absent
  Requests = {r1, r2, r3}
  Ids = {r1, r2, r3, x}
  Contents <- MCContents
  Payloads = {"smoke", "deep", "named", "bad"}
  Body <- MCBody
  Keys = {k1}
  NoKey = NoKey
  LeaseTtl <- MCLeaseTtl
  KeyTtl = 1
  DayLength = 2
  LeaseHistory = 2
  MaxStored = 1
  Reports <- MCReports
  Horizon = 2
  MaxRestarts = 1
INVARIANTS
  TypeOK
  OneCampaignPerKey
  QuotaKept
  ReplayedIsAdmitted
PROPERTY
  FinishedForGood
SYMMETRY Symmetry
