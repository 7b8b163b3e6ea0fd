\* One call whose sbatch times out after the cluster took the job.
CONSTANTS
  Call = {a}
  gcp = gcp
  nibi = nibi
  mila = mila
  Order <- Clusters
  Gated = {}
  Gcp = gcp
  RunPod = runpod
  AnyLane = auto
  Requests = {auto}
  MaxAttempts = 1
  MaxSends = 1
  MaxDay = 1
  ProbeFailures = FALSE
  LostReplies = TRUE
  Crashes = FALSE
  Overlap = TRUE
  RaceProbe = FALSE
  NoCall = NoCall
  NoLane = NoLane
SPECIFICATION Spec
INVARIANTS AtMostOneLiveJob
