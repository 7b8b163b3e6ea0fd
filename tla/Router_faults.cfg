\* Two racing calls, auto or with an override, one cluster then GCP, and every
\* fault.
CONSTANTS
  Call = {a, b}
  gcp = gcp
  nibi = nibi
  mila = mila
  Order <- ClusterFirst
  Gated = {nibi}
  Gcp = gcp
  RunPod = runpod
  AnyLane = auto
  Requests = {auto, gcp, nibi, runpod}
  MaxAttempts = 1
  MaxSends = 2
  MaxDay = 2
  ProbeFailures = TRUE
  LostReplies = TRUE
  Crashes = TRUE
  Overlap = TRUE
  RaceProbe = TRUE
  NoCall = NoCall
  NoLane = NoLane
SPECIFICATION FairSpec
INVARIANTS TypeOK OneLivePerLane OneKnownJobPerCall ProvisioningsWithinCap OneAttemptId
PROPERTIES EveryCallReturns
