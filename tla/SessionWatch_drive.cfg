\* One issue, six session ids, two failures of any kind and one thing a user does.
CONSTANTS
  Sid = {1, 2, 3, 4, 5, 6}
  StalledWindow = 1
  OrphanStale = 2
  MaxRespawns = 1
  MaxPerDay = 1
  MaxFaults = 2
  MaxUser = 1
SPECIFICATION FairSpec
INVARIANTS TypeOK EpisodeBounded
PROPERTIES NoSecondDriver NeverAbandoned
