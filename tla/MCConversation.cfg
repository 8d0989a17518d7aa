SPECIFICATION FairSpec
CONSTANTS
  N = 4
  Scripts <- SomeScripts
INVARIANTS InOrder
PROPERTIES InputsSettle OneOwner
CHECK_DEADLOCK FALSE
