\* Posts, comments, plans and concerns of two processes, one of which may die.
CONSTANTS
  Proc = {p, q}
  Use = {"post", "comment", "plan", "concern"}
  Kinds = {k}
  Concerns = {c}
  Severities = {"BLOCKER", "CONCERN"}
  Texts = {t}
  MaxRound = 2
  MaxVersion = 3
  MaxCalls = 4
  MaxFaults = 1
  StartPlans = {1, 3}
  NoProc = NoProc
  NoText = NoText
SPECIFICATION Spec
INVARIANTS TypeOK NumbersUnique PlansSound ConcernsSound
