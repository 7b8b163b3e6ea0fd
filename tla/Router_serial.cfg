\* Calls one after the other, killed anywhere; probes answer and launches reply.
CONSTANTS
  Call = {a, b}
  gcp = gcp
  nibi = nibi
  mila = mila
  Order <- GcpFirst
  Gated = {}
  Gcp = gcp
  RunPod = runpod
  AnyLane = auto
  Requests = {auto}
  MaxAttempts = 2
  MaxSends = 1
  MaxDay = 1
  ProbeFailures = FALSE
  LostReplies = FALSE
  Crashes = TRUE
  Overlap = FALSE
  RaceProbe = TRUE
  NoCall = NoCall
  NoLane = NoLane
SPECIFICATION Spec
SYMMETRY Symmetry
INVARIANTS AtMostOneLiveJob
