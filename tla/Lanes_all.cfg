\* Every lane part in turn, with one or two faults in each.
SPECIFICATION Spec
CONSTANTS
  MaxAttempts = 2
  MaxFaults = 1
  Refresh = 2
  Advisory = 2
  MaxVms = 2
  MaxCalls = 3
  Zones = 2
  Proc = {1, 2}
  Issue = {1, 2}
  MaxPods = 2
  MaxMishaps = 1
  MaxRuns = 3
  PollFaults = 2
  MaxCommands = 5
  RunFaults = 2
  Letter = {1, 2}
  Lengthy = {1}
  Gating = {1, 2}
  MailFaults = 2
INVARIANTS TypeOK VerdictsTrue ReachesItsOwn RecordsKept
PROPERTIES VerdictsStand
CHECK_DEADLOCK FALSE
