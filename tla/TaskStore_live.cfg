\* Every call ends and a promotion reaches completed, under fair scheduling.
CONSTANTS
  Proc = {p, q}
  Readers = {q}
  MaxId = 1
  Fields = {f}
  Targets = {"proposed", "awaiting_promotion"}
  MaxCalls = 3
  MaxFaults = 1
  NoProc = NoProc
  NoFields = NoFields
SPECIFICATION FairSpec
PROPERTIES FlockReleased PromotionCompletes
