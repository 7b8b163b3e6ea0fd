\* Every part of the watcher in turn, under the fairness of the two crons.
SPECIFICATION FairSpec
CONSTANTS
  Sid = {1, 2}
  Grace = 2
  StallWindow = 1
  MaxRespawns = 1
  MaxFaults = 1
  Streak = 2
  Window = 1
  Rearm = 2
  Issue = {1, 2}
  Session = {1, 2}
  MaxCalls = 2
  MaxClock = 2
  PmCap = 1
INVARIANTS TypeOK StopsConfirmed OncePerEpisode NoneUnregistered
PROPERTIES DealtWith
CHECK_DEADLOCK FALSE
