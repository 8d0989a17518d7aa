SPECIFICATION Spec
CONSTANTS
  s1 = s1
  s2 = s2
  NoCall = NoCall
  Slots = {s1}
  MultiTurn = TRUE
  SilentJobs = FALSE
  Commands = {"finish"}
  MaxIter = 1
  MaxRetries = 0
  MaxInputs = 2
  MaxJobs = 0
  MaxStops = 0
SYMMETRY SlotSymmetry
PROPERTIES TerminalAbsorbing
