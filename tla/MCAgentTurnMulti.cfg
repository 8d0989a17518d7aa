SPECIFICATION Spec
CONSTANTS
  s1 = s1
  s2 = s2
  NoCall = NoCall
  Slots = {s1, s2}
  MultiTurn = TRUE
  SilentJobs = FALSE
  Commands = {"stop", "finish"}
  MaxIter = 1
  MaxRetries = 1
  MaxInputs = 2
  MaxJobs = 1
  MaxStops = 1
SYMMETRY SlotSymmetry
INVARIANTS ApprovalAnswerable OneLlmCall
PROPERTIES CancelIsFinal TurnStartsClean
