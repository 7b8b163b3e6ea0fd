\* Two processes, two failures: crashes between any two writes, or git commits
\* that fail.
CONSTANTS
  Proc = {p, q}
  Readers = {}
  MaxId = 2
  Fields = {f, g}
  Targets = {"awaiting_promotion", "followups_running", "running"}
  MaxCalls = 3
  MaxFaults = 2
  NoProc = NoProc
  NoFields = NoFields
SPECIFICATION Spec
INVARIANTS TypeOK Consistent HighestCoversRegistry
PROPERTIES LogOnlyGrows NoLostUpdate ImplementsLifecycle
