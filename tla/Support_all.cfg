\* Every supporting command in turn.
SPECIFICATION Spec
CONSTANTS
  CancelledCap = 1
  TransientCap = 1
  ProbeCap = 2
  MaxFaults = 2
  MaxMoves = 5
  Watch = {1, 2}
  BlindLimit = 2
  MaxTurns = 3
  Proc = {1, 2}
  Filed = {1}
  MaxJobs = 2
  Budget = 1
  MaxMarkers = 3
  MaxRounds = 2
  PodName = {1}
  Threshold = 1
  MaxClock = 2
  MaxMishaps = 1
  MaxPodTurns = 1
  MaxSends = 2
  Dir = {1, 2}
  Twins = {}
  Scratch = {2}
  MaxVersion = 1
  HubFaults = 2
  Client = {1, 2}
  Key = {0, 1, 2}
  NumBins = 2
  MaxMem = 2
  MaxSaves = 4
  MaxDeaths = 1
  Gated = {1, 2}
  Metered = {3}
  Threads = 1
  Rate = 1
  MaxAttempts = 2
  Repeats = {3}
  BatchSize = 4
  MaxRuns = 2
  MaxMisses = 1
  Exp = {1, 2, 3}
  DefaultSlots = 2
  MaxFiled = 3
  Totals = {2}
  Issue = {1}
  Commander = {1, 2}
  MaxIds = 6
  MaxEdits = 1
  MaxVersions = 2
  MaxCommands = 4
  Result = {1, 2}
  MaxRewrites = 2
  MaxSendFaults = 2
  Rented = {1, 2}
  MaxHours = 1
  MaxHappenings = 2
INVARIANTS TypeOK ReportsTrue NothingLost
CHECK_DEADLOCK FALSE
